---- MODULE Spec2Model ----
(* Layout analysis of alexhholmes/layout: internal/analyzer (Analyze and   *)
(* its four phases) over parser.TypeLayout values and a TypeRegistry.      *)
(*                                                                         *)
(* Go type strings are modelled as sequences of tokens: "[]byte" is        *)
(* <<SliceTok, Name("byte")>>, "[4]uint8" is <<ArrTok(4), Name("uint8")>>, *)
(* "*T" is <<PtrTok, Name("T")>>.  strings.HasPrefix(t, "[]") is           *)
(* Head(t) = SliceTok and t[2:] is Tail(t).  A count reference is the      *)
(* sequence strings.Split(countField, ".") would give, with <<>> for "".   *)
EXTENDS Integers, Sequences, FiniteSets, TLC

VARIABLES layout, registry, Regions, Errors, err, pc, call,
          tag, parsed, comment, anno,
          page, buf, decoded, writes

(* the state of the parser: a struct tag and what ParseTag returned for    *)
(* it, a comment line and what ParseAnnotation returned for it             *)
parserVars == <<tag, parsed, comment, anno>>

(* the state of the generated code: the struct value page, the byte buffer, *)
(* the struct value decoded that UnmarshalLayout fills, and the bytes written so *)
(* far by MarshalLayout, each with the field it was written for            *)
codegenVars == <<page, buf, decoded, writes>>

vars == <<layout, registry, Regions, Errors, err, pc, call, parserVars, codegenVars>>

----------------------------------------------------------------------------
(* Bounds of the model *)

MaxFields == 3

GeomSize == 16

CountSize == 300

TypeSize == 16

----------------------------------------------------------------------------
(* parser.PackDirection and analyzer.RegionKind *)

Fixed == 0

StartEnd == 1

EndStart == 2

FixedRegion == 0

DynamicRegion == 1

----------------------------------------------------------------------------
(* Go type strings *)

Name(s) == [k |-> "name", n |-> 0, id |-> s]

SliceTok == [k |-> "slice", n |-> 0, id |-> ""]

ArrTok(len) == [k |-> "arr", n |-> len, id |-> ""]

PtrTok == [k |-> "ptr", n |-> 0, id |-> ""]

T(s) == <<Name(s)>>

SliceOf(t) == <<SliceTok>> \o t

ArrayOf(len, t) == <<ArrTok(len)>> \o t

EmptyString == <<>>

NoErr == "nil"

Res(size, e) == [size |-> size, err |-> e]

----------------------------------------------------------------------------
(* size.go *)

RECURSIVE SizeOf(_)

arraySize(goType) ==
    IF ~(Head(goType).k = "arr" /\ Len(goType) > 1)
    THEN Res(0, "invalid array type")
    ELSE LET elem == SizeOf(Tail(goType))
         IN  IF elem.err # NoErr THEN Res(0, "array element")
             ELSE IF elem.size < 0 THEN Res(0, "array of dynamic type")
             ELSE Res(Head(goType).n * elem.size, NoErr)

(* variant: a pointer is given the size of a machine word *)
SizeOf_PointerWord(goType) ==
    IF goType \in {T("uint8"), T("int8"), T("byte"), T("bool")} THEN Res(1, NoErr)
    ELSE IF goType \in {T("uint16"), T("int16")} THEN Res(2, NoErr)
    ELSE IF goType \in {T("uint32"), T("int32"), T("float32")} THEN Res(4, NoErr)
    ELSE IF goType \in {T("uint64"), T("int64"), T("float64")} THEN Res(8, NoErr)
    ELSE IF goType # <<>> /\ Head(goType).k = "slice" THEN Res(-1, NoErr)
    ELSE IF goType # <<>> /\ Head(goType).k = "arr" THEN arraySize(goType)
    ELSE IF goType # <<>> /\ Head(goType).k = "ptr" THEN Res(8, NoErr)
    ELSE Res(0, "unknown type")

SizeOf(goType) ==
    IF goType \in {T("uint8"), T("int8"), T("byte"), T("bool")} THEN Res(1, NoErr)
    ELSE IF goType \in {T("uint16"), T("int16")} THEN Res(2, NoErr)
    ELSE IF goType \in {T("uint32"), T("int32"), T("float32")} THEN Res(4, NoErr)
    ELSE IF goType \in {T("uint64"), T("int64"), T("float64")} THEN Res(8, NoErr)
    ELSE IF goType # <<>> /\ Head(goType).k = "slice" THEN Res(-1, NoErr)
    ELSE IF goType # <<>> /\ Head(goType).k = "arr" THEN arraySize(goType)
    ELSE IF goType # <<>> /\ Head(goType).k = "ptr" THEN Res(0, "pointer types not supported")
    ELSE Res(0, "unknown type")

Lookup(r, name) ==
    IF name \in DOMAIN r.types THEN [size |-> r.types[name], ok |-> TRUE]
    ELSE [size |-> 0, ok |-> FALSE]

RECURSIVE ResolveType(_, _)

ResolveType(r, goType) ==
    IF goType \in DOMAIN r.aliases THEN ResolveType(r, r.aliases[goType])
    ELSE goType

RECURSIVE RegSizeOf(_, _)

RECURSIVE RegSizeOf_OneElement(_, _)

(* variant: an array has the size of one element *)
RegSizeOf_OneElement(r, goType) ==
    IF goType # <<>> /\ Head(goType).k = "slice" THEN Res(-1, NoErr)
    ELSE IF goType # <<>> /\ Head(goType).k = "arr" /\ Len(goType) > 1
    THEN LET elem == RegSizeOf_OneElement(r, Tail(goType))
         IN  IF elem.err # NoErr THEN Res(0, elem.err)
             ELSE IF elem.size < 0 THEN Res(0, "array of dynamic type")
             ELSE Res(elem.size, NoErr)
    ELSE LET resolved == ResolveType(r, goType)
             builtin == SizeOf(resolved)
         IN  IF builtin.err = NoErr THEN builtin
             ELSE IF Lookup(r, resolved).ok THEN Res(Lookup(r, resolved).size, NoErr)
             ELSE Res(0, "unknown type (not registered)")

RegSizeOf(r, goType) ==
    IF goType # <<>> /\ Head(goType).k = "slice" THEN Res(-1, NoErr)
    ELSE IF goType # <<>> /\ Head(goType).k = "arr" /\ Len(goType) > 1
    THEN LET elem == RegSizeOf(r, Tail(goType))
         IN  IF elem.err # NoErr THEN Res(0, elem.err)
             ELSE IF elem.size < 0 THEN Res(0, "array of dynamic type")
             ELSE Res(Head(goType).n * elem.size, NoErr)
    ELSE LET resolved == ResolveType(r, goType)
             builtin == SizeOf(resolved)
         IN  IF builtin.err = NoErr THEN builtin
             ELSE IF Lookup(r, resolved).ok THEN Res(Lookup(r, resolved).size, NoErr)
             ELSE Res(0, "unknown type (not registered)")

----------------------------------------------------------------------------
(* analyzer.go: phase 1 *)

extractElementType(sliceType) ==
    IF Len(sliceType) < 2 \/ Head(sliceType).k # "slice" THEN EmptyString
    ELSE Tail(sliceType)

Region(kind, start, boundary, dir, field, elemSize, elemType) ==
    [Kind |-> kind, Start |-> start, Boundary |-> boundary, Direction |-> dir,
     Field |-> field, ElementSize |-> elemSize, ElementType |-> elemType]

BuildRes(r, e) == [region |-> r, err |-> e]

(* variant: a fixed field that ends at the end of the buffer is rejected *)
buildRegion_AtLeast(field, bufferSize, reg) ==
    LET r0 == Region(FixedRegion, 0, -1, Fixed, field, 0, EmptyString)
        sz == RegSizeOf(reg, field.GoType)
    IN  IF field.Layout.Direction = Fixed
        THEN IF sz.err # NoErr THEN BuildRes(r0, "cannot determine size")
             ELSE IF sz.size < 0 THEN BuildRes(r0, "fixed field cannot have dynamic type")
             ELSE LET r == Region(FixedRegion, field.Layout.Offset,
                                  field.Layout.Offset + sz.size, Fixed, field,
                                  0, EmptyString)
                  IN  IF r.Boundary >= bufferSize
                      THEN BuildRes(r, "exceeds buffer size")
                      ELSE BuildRes(r, NoErr)
        ELSE IF sz.err # NoErr THEN BuildRes(r0, "cannot determine element type")
        ELSE IF sz.size # -1 THEN BuildRes(r0, "dynamic field must be slice type")
        ELSE LET elementType == extractElementType(field.GoType)
                 es == RegSizeOf(reg, elementType)
             IN  IF elementType = EmptyString
                 THEN BuildRes(r0, "cannot extract element type")
                 ELSE IF es.err # NoErr
                 THEN BuildRes(r0, "cannot determine element size")
                 ELSE IF es.size < 0
                 THEN BuildRes(r0, "element type cannot be dynamic")
                 ELSE BuildRes(
                        Region(DynamicRegion,
                               IF field.Layout.StartAt >= 0 THEN field.Layout.StartAt
                               ELSE IF field.Layout.Direction = EndStart THEN bufferSize
                               ELSE 0,
                               -1, field.Layout.Direction, field, es.size, elementType),
                        NoErr)

buildRegion(field, bufferSize, reg) ==
    LET r0 == Region(FixedRegion, 0, -1, Fixed, field, 0, EmptyString)
        sz == RegSizeOf(reg, field.GoType)
    IN  IF field.Layout.Direction = Fixed
        THEN IF sz.err # NoErr THEN BuildRes(r0, "cannot determine size")
             ELSE IF sz.size < 0 THEN BuildRes(r0, "fixed field cannot have dynamic type")
             ELSE LET r == Region(FixedRegion, field.Layout.Offset,
                                  field.Layout.Offset + sz.size, Fixed, field,
                                  0, EmptyString)
                  IN  IF r.Boundary > bufferSize
                      THEN BuildRes(r, "exceeds buffer size")
                      ELSE BuildRes(r, NoErr)
        ELSE IF sz.err # NoErr THEN BuildRes(r0, "cannot determine element type")
        ELSE IF sz.size # -1 THEN BuildRes(r0, "dynamic field must be slice type")
        ELSE LET elementType == extractElementType(field.GoType)
                 es == RegSizeOf(reg, elementType)
             IN  IF elementType = EmptyString
                 THEN BuildRes(r0, "cannot extract element type")
                 ELSE IF es.err # NoErr
                 THEN BuildRes(r0, "cannot determine element size")
                 ELSE IF es.size < 0
                 THEN BuildRes(r0, "element type cannot be dynamic")
                 ELSE BuildRes(
                        Region(DynamicRegion,
                               IF field.Layout.StartAt >= 0 THEN field.Layout.StartAt
                               ELSE IF field.Layout.Direction = EndStart THEN bufferSize
                               ELSE 0,
                               -1, field.Layout.Direction, field, es.size, elementType),
                        NoErr)

ErrEntry(kind, a, b) == [kind |-> kind, a |-> a, b |-> b]

RECURSIVE BuildRegions(_, _, _)

RECURSIVE BuildRegions_StopAtFirst(_, _, _)

(* variant: the loop ends at the first field that fails *)
BuildRegions_StopAtFirst(fields, bufferSize, reg) ==
    IF fields = <<>> THEN [regions |-> <<>>, errors |-> <<>>]
    ELSE LET n    == Len(fields)
             rest == BuildRegions_StopAtFirst(SubSeq(fields, 1, n - 1), bufferSize, reg)
             b    == buildRegion(fields[n], bufferSize, reg)
         IN  IF Len(rest.errors) > 0 THEN rest
             ELSE IF b.err # NoErr
             THEN [regions |-> rest.regions,
                   errors  |-> Append(rest.errors, ErrEntry(b.err, fields[n].Name, ""))]
             ELSE [regions |-> Append(rest.regions, b.region), errors |-> rest.errors]

(* the loop of Analyze, phase 1: regions and per-field errors, in field order *)
BuildRegions(fields, bufferSize, reg) ==
    IF fields = <<>> THEN [regions |-> <<>>, errors |-> <<>>]
    ELSE LET n    == Len(fields)
             rest == BuildRegions(SubSeq(fields, 1, n - 1), bufferSize, reg)
             b    == buildRegion(fields[n], bufferSize, reg)
         IN  IF b.err # NoErr
             THEN [regions |-> rest.regions,
                   errors  |-> Append(rest.errors, ErrEntry(b.err, fields[n].Name, ""))]
             ELSE [regions |-> Append(rest.regions, b.region), errors |-> rest.errors]

----------------------------------------------------------------------------
(* analyzer.go: phase 2 *)

RECURSIVE insertionSort(_)

(* sort.Slice by Start: for the lengths considered (at most 12 elements)  *)
(* the library runs its insertion sort, which moves an element left only   *)
(* while it is strictly less than its predecessor                          *)
SortInsert(sorted, r) ==
    LET RECURSIVE Ins(_)
        Ins(s) == IF s = <<>> \/ ~(r.Start < s[Len(s)].Start)
                  THEN Append(s, r)
                  ELSE Append(Ins(SubSeq(s, 1, Len(s) - 1)), s[Len(s)])
    IN  Ins(sorted)

(* variant: the regions are left in declaration order *)
insertionSort_Unsorted(rs) == rs

insertionSort(rs) ==
    IF rs = <<>> THEN <<>>
    ELSE SortInsert(insertionSort(SubSeq(rs, 1, Len(rs) - 1)), rs[Len(rs)])

RECURSIVE findPreviousEndFrom(_, _)

findPreviousEndFrom(regions, i) ==
    IF i < 1 THEN 0
    ELSE IF regions[i].Kind = FixedRegion THEN regions[i].Boundary
    ELSE IF regions[i].Direction = StartEnd /\ regions[i].Field.Layout.StartAt >= 0
    THEN regions[i].Start
    ELSE findPreviousEndFrom(regions, i - 1)

(* variant: a backward region always runs to the start of the buffer *)
findPreviousEnd_BufferStart(regions, idx) == 0

findPreviousEnd(regions, idx) == findPreviousEndFrom(regions, idx - 1)

RECURSIVE findNextStartFrom(_, _, _)

findNextStartFrom(regions, i, bufferSize) ==
    IF i > Len(regions) THEN bufferSize
    ELSE IF regions[i].Kind = FixedRegion THEN regions[i].Start
    ELSE IF regions[i].Field.Layout.StartAt >= 0 THEN regions[i].Start
    ELSE findNextStartFrom(regions, i + 1, bufferSize)

findNextStart(regions, idx, bufferSize) == findNextStartFrom(regions, idx + 1, bufferSize)

RECURSIVE implicitStarts(_, _)

(* first loop of calculateBoundaries, from index i on, updating in place *)
implicitStarts(regions, i) ==
    IF i > Len(regions) THEN regions
    ELSE LET r == regions[i]
         IN  IF r.Kind = DynamicRegion /\ r.Direction = StartEnd
                /\ r.Field.Layout.StartAt < 0
             THEN implicitStarts(
                    [regions EXCEPT ![i].Start = findPreviousEnd(regions, i)], i + 1)
             ELSE implicitStarts(regions, i + 1)

RECURSIVE boundaries(_, _, _)

(* second loop of calculateBoundaries, from index i on, updating in place *)
boundaries(regions, i, bufferSize) ==
    IF i > Len(regions) THEN regions
    ELSE LET r == regions[i]
         IN  IF r.Kind = FixedRegion THEN boundaries(regions, i + 1, bufferSize)
             ELSE IF r.Direction = StartEnd
             THEN boundaries(
                    [regions EXCEPT ![i].Boundary = findNextStart(regions, i, bufferSize)],
                    i + 1, bufferSize)
             ELSE boundaries(
                    [regions EXCEPT ![i].Boundary = findPreviousEnd(regions, i)],
                    i + 1, bufferSize)

calculateBoundaries(regions, bufferSize) ==
    boundaries(implicitStarts(insertionSort(regions), 1), 1, bufferSize)

----------------------------------------------------------------------------
(* analyzer.go: phase 3 *)

hasNonFixedBefore(regions, target) ==
    \E i \in 1..Len(regions) :
        regions[i].Start < target.Start /\ regions[i].Kind = DynamicRegion

(* variant: a region at the same start counts as following *)
hasNonFixedAfter_OrEqual(regions, target) ==
    \E i \in 1..Len(regions) :
        regions[i].Start >= target.Start /\ regions[i].Kind = DynamicRegion

hasNonFixedAfter(regions, target) ==
    \E i \in 1..Len(regions) :
        regions[i].Start > target.Start /\ regions[i].Kind = DynamicRegion

(* variant: a count field of any type is taken *)
isCountType_AnyType(goType) == TRUE

isCountType(goType) ==
    goType \in {T("uint8"), T("uint16"), T("uint32"), T("uint64"),
                T("int8"), T("int16"), T("int32"), T("int64")}

getMaxCountValue(countType) ==
    IF countType \in {T("uint8"), T("int8")} THEN 255
    ELSE IF countType \in {T("uint16"), T("int16")} THEN 65535
    ELSE IF countType \in {T("uint32"), T("int32")} THEN 2147483647
    ELSE IF countType \in {T("uint64"), T("int64")} THEN 2147483647
    ELSE -1

FieldIndex(fields, name) ==
    IF \E i \in 1..Len(fields) : fields[i].Name = name
    THEN CHOOSE i \in 1..Len(fields) :
            fields[i].Name = name /\ \A j \in 1..(i - 1) : fields[j].Name # name
    ELSE 0

CountRes(t, e) == [type |-> t, err |-> e]

getCountFieldType(countField, lay) ==
    IF Len(countField) > 1
    THEN IF Len(countField) # 2
         THEN CountRes(EmptyString, "invalid nested reference")
         ELSE IF FieldIndex(lay.Fields, countField[1]) = 0
         THEN CountRes(EmptyString, "count field parent not found")
         ELSE CountRes(EmptyString, NoErr)
    ELSE LET i == FieldIndex(lay.Fields, countField[1])
         IN  IF i = 0 THEN CountRes(EmptyString, "count field not found")
             ELSE IF ~isCountType(lay.Fields[i].GoType)
             THEN CountRes(EmptyString, "count field must be an integer type")
             ELSE CountRes(lay.Fields[i].GoType, NoErr)

maxSpaceOf(region) ==
    LET d == IF region.Direction = StartEnd
             THEN region.Boundary - region.Start
             ELSE region.Start - region.Boundary
    IN  IF d < 0 THEN 0 ELSE d

maxElementsOf(region) ==
    (maxSpaceOf(region) \div region.ElementSize)
      + (IF maxSpaceOf(region) % region.ElementSize # 0 THEN 1 ELSE 0)

(* variant: rejects a capacity equal to the maximum of the count type *)
validateCountCapacity_AtLeast(region, countFieldType, bufferSize) ==
    IF countFieldType = EmptyString THEN NoErr
    ELSE IF region.ElementSize = 0 THEN "panic"
    ELSE IF getMaxCountValue(countFieldType) < 0 THEN NoErr
    ELSE IF maxElementsOf(region) >= getMaxCountValue(countFieldType)
    THEN "count overflow"
    ELSE NoErr

(* "panic" stands for the integer-divide-by-zero runtime panic *)
validateCountCapacity(region, countFieldType, bufferSize) ==
    IF countFieldType = EmptyString THEN NoErr
    ELSE IF region.ElementSize = 0 THEN "panic"
    ELSE IF getMaxCountValue(countFieldType) < 0 THEN NoErr
    ELSE IF maxElementsOf(region) > getMaxCountValue(countFieldType)
    THEN "count overflow"
    ELSE NoErr

(* variant: a struct slice needs a count only where a byte slice would *)
validateRegion_NoStructRule(regions, region, lay, bufferSize) ==
    LET countField == region.Field.Layout.CountField
        needsCount ==
            IF region.Direction = EndStart
            THEN region.Boundary = 0 /\ hasNonFixedBefore(regions, region)
            ELSE region.Boundary = bufferSize /\ hasNonFixedAfter(regions, region)
    IN  IF region.Kind # DynamicRegion THEN NoErr
        ELSE IF countField = EmptyString /\ needsCount
        THEN "requires count (no fixed boundary)"
        ELSE IF countField # EmptyString
        THEN LET c == getCountFieldType(countField, lay)
             IN  IF c.err # NoErr THEN c.err
                 ELSE IF Len(countField) = 1
                 THEN validateCountCapacity(region, c.type, bufferSize)
                 ELSE NoErr
        ELSE NoErr

(* the body of the loop of validateCountFields for one region *)
validateRegion(regions, region, lay, bufferSize) ==
    LET countField == region.Field.Layout.CountField
        needsCount ==
            IF region.Direction = EndStart
            THEN region.Boundary = 0 /\ hasNonFixedBefore(regions, region)
            ELSE region.Boundary = bufferSize /\ hasNonFixedAfter(regions, region)
    IN  IF region.Kind # DynamicRegion THEN NoErr
        ELSE IF region.ElementType # T("byte") /\ countField = EmptyString
        THEN "requires count (struct slice)"
        ELSE IF region.ElementType = T("byte") /\ countField = EmptyString /\ needsCount
        THEN "requires count (no fixed boundary)"
        ELSE IF countField # EmptyString
        THEN LET c == getCountFieldType(countField, lay)
             IN  IF c.err # NoErr THEN c.err
                 ELSE IF Len(countField) = 1
                 THEN validateCountCapacity(region, c.type, bufferSize)
                 ELSE NoErr
        ELSE NoErr

RECURSIVE validateFrom(_, _, _, _)

validateFrom(regions, i, lay, bufferSize) ==
    IF i > Len(regions) THEN ErrEntry(NoErr, "", "")
    ELSE LET e == validateRegion(regions, regions[i], lay, bufferSize)
         IN  IF e # NoErr THEN ErrEntry(e, regions[i].Field.Name, "")
             ELSE validateFrom(regions, i + 1, lay, bufferSize)

validateCountFields(regions, lay, bufferSize) == validateFrom(regions, 1, lay, bufferSize)

----------------------------------------------------------------------------
(* analyzer.go: phase 4 *)

RECURSIVE collisionsFrom(_, _)

collisionsFrom(regions, i) ==
    IF i > Len(regions) - 1 THEN <<>>
    ELSE LET r1 == regions[i]
             r2 == regions[i + 1]
         IN  (IF r1.Kind = FixedRegion /\ r2.Kind = FixedRegion /\ r1.Boundary > r2.Start
              THEN <<ErrEntry("collision", r1.Field.Name, r2.Field.Name)>>
              ELSE <<>>) \o collisionsFrom(regions, i + 1)

(* variant: detection stops at the first collision, as validation does *)
detectCollisions_FirstOnly(regions) ==
    IF collisionsFrom(regions, 1) = <<>> THEN <<>>
    ELSE <<Head(collisionsFrom(regions, 1))>>

detectCollisions(regions) == collisionsFrom(regions, 1)

AnalyzeRes(regions, errors, e) == [Regions |-> regions, Errors |-> errors, err |-> e]

(* Analyze as one function of its inputs: the four phases in sequence *)
Analyze(lay, reg) ==
    LET b  == BuildRegions(lay.Fields, lay.Anno.Size, reg)
        rs == calculateBoundaries(b.regions, lay.Anno.Size)
        v  == validateCountFields(rs, lay, lay.Anno.Size)
    IN  IF Len(b.errors) > 0 THEN AnalyzeRes(b.regions, b.errors, "layout has errors")
        ELSE IF v.kind = "panic" THEN AnalyzeRes(rs, <<>>, "panic")
        ELSE IF v.kind # NoErr THEN AnalyzeRes(rs, <<v>>, v.kind)
        ELSE AnalyzeRes(rs, detectCollisions(rs), NoErr)

IsValid == Len(Errors) = 0

----------------------------------------------------------------------------
(* Inputs: TypeLayouts as the parser (ParseTag) delivers them *)

FieldNames == <<"F1", "F2", "F3", "F4", "F5">>

FixedAt(goType, offset) ==
    [GoType |-> goType,
     Layout |-> [Offset |-> offset, Direction |-> Fixed, StartAt |-> -1,
                 CountField |-> EmptyString]]

Dynamic(goType, dir, startAt, countField) ==
    [GoType |-> goType,
     Layout |-> [Offset |-> -1, Direction |-> dir, StartAt |-> startAt,
                 CountField |-> countField]]

Bytes == SliceOf(T("byte"))

Elems == SliceOf(T("Elem"))

(* field declarations of the placement cases, for a buffer of GeomSize bytes *)
GeomDecls ==
    { FixedAt(T("uint16"), 0), FixedAt(T("uint16"), 4),
      FixedAt(T("uint64"), 4), FixedAt(T("uint64"), 8), FixedAt(T("uint16"), -2),
      Dynamic(Bytes, StartEnd, -1, EmptyString),
      Dynamic(Bytes, EndStart, -1, EmptyString),
      Dynamic(Bytes, StartEnd, 4, EmptyString),
      Dynamic(Bytes, StartEnd, GeomSize + 4, EmptyString),
      Dynamic(Bytes, EndStart, 12, EmptyString) }

(* field declarations of the count cases, for a buffer of CountSize bytes *)
CountDecls ==
    { FixedAt(T("uint8"), 0), FixedAt(T("uint16"), 0), FixedAt(T("uint64"), 0),
      FixedAt(T("uint8"), 256),
      Dynamic(Bytes, StartEnd, -1, EmptyString),
      Dynamic(Bytes, StartEnd, -1, <<"F1">>),
      Dynamic(Bytes, EndStart, 70000, <<"F1">>),
      Dynamic(Elems, StartEnd, -1, EmptyString),
      Dynamic(Elems, StartEnd, -1, <<"F1">>),
      Dynamic(Bytes, StartEnd, -1, <<"Nope">>),
      Dynamic(Bytes, StartEnd, -1, <<"F1", "NumKeys">>),
      Dynamic(Bytes, StartEnd, -1, <<"Nope", "NumKeys">>),
      Dynamic(Bytes, StartEnd, -1, <<"F1", "B", "C">>) }

Named(decls) ==
    [i \in 1..Len(decls) |->
        [Name |-> FieldNames[i], GoType |-> decls[i].GoType, Layout |-> decls[i].Layout]]

LayoutsOver(decls, size) ==
    { [Name |-> "Page", Anno |-> [Size |-> size], Fields |-> Named(ds)] :
        ds \in UNION { [1..n -> decls] : n \in 1..MaxFields } }

Layouts == LayoutsOver(GeomDecls, GeomSize) \cup LayoutsOver(CountDecls, CountSize)

Registry0 ==
    [types   |-> [t \in {T("Elem")} |-> 4],
     aliases |-> [t \in {T("PageID")} |-> T("uint64")]]

----------------------------------------------------------------------------
(* Analyze as a state machine: one action per phase *)

(* nothing is being parsed *)
ParserIdle ==
    /\ tag = <<>>
    /\ parsed = <<>>
    /\ comment = <<>>
    /\ anno = <<>>

(* no generated code is running *)
CodegenIdle ==
    /\ page = <<>>
    /\ buf = <<>>
    /\ decoded = <<>>
    /\ writes = {}

(* no call of TypeRegistry.SizeOf is being followed step by step *)
NoCall == [arg |-> EmptyString, goType |-> EmptyString, mult |-> 1, depth |-> 0,
           iter |-> 0, size |-> 0, err |-> NoErr]

Init ==
    /\ layout \in Layouts
    /\ registry = Registry0
    /\ Regions = <<>>
    /\ Errors = <<>>
    /\ err = NoErr
    /\ pc = "build"
    /\ call = NoCall
    /\ ParserIdle
    /\ CodegenIdle

(* Phase 1 and the early return when any field failed *)
BuildPhase ==
    /\ pc = "build"
    /\ LET b == BuildRegions(layout.Fields, layout.Anno.Size, registry)
       IN  /\ Regions' = b.regions
           /\ Errors' = b.errors
           /\ err' = IF Len(b.errors) > 0 THEN "layout has errors" ELSE NoErr
           /\ pc' = IF Len(b.errors) > 0 THEN "done" ELSE "resolve"
    /\ UNCHANGED <<layout, registry, call, parserVars, codegenVars>>

(* variant: the fields of the layout are sorted in place as well *)
ResolvePhase_SortsFields ==
    /\ pc = "resolve"
    /\ Regions' = calculateBoundaries(Regions, layout.Anno.Size)
    /\ layout' = [layout EXCEPT !.Fields =
                     [i \in 1..Len(Regions') |-> Regions'[i].Field]]
    /\ pc' = "validate"
    /\ UNCHANGED <<registry, Errors, err, call, parserVars, codegenVars>>

(* Phase 2; calculateBoundaries always returns nil *)
ResolvePhase ==
    /\ pc = "resolve"
    /\ Regions' = calculateBoundaries(Regions, layout.Anno.Size)
    /\ pc' = "validate"
    /\ UNCHANGED <<layout, registry, Errors, err, call, parserVars, codegenVars>>

(* variant: the error of phase 3 is returned without being recorded *)
ValidatePhase_NotRecorded ==
    /\ pc = "validate"
    /\ LET e == validateCountFields(Regions, layout, layout.Anno.Size)
       IN  IF e.kind = "panic"
           THEN /\ pc' = "panic"
                /\ UNCHANGED <<Errors, err>>
           ELSE IF e.kind # NoErr
           THEN /\ err' = e.kind
                /\ pc' = "done"
                /\ UNCHANGED Errors
           ELSE /\ pc' = "detect"
                /\ UNCHANGED <<Errors, err>>
    /\ UNCHANGED <<layout, registry, Regions, call, parserVars, codegenVars>>

(* Phase 3 and the return on its error *)
ValidatePhase ==
    /\ pc = "validate"
    /\ LET e == validateCountFields(Regions, layout, layout.Anno.Size)
       IN  IF e.kind = "panic"
           THEN /\ pc' = "panic"
                /\ UNCHANGED <<Errors, err>>
           ELSE IF e.kind # NoErr
           THEN /\ Errors' = Append(Errors, e)
                /\ err' = e.kind
                /\ pc' = "done"
           ELSE /\ pc' = "detect"
                /\ UNCHANGED <<Errors, err>>
    /\ UNCHANGED <<layout, registry, Regions, call, parserVars, codegenVars>>

(* Phase 4 and the final return a, nil *)
DetectPhase ==
    /\ pc = "detect"
    /\ Errors' = Errors \o detectCollisions(Regions)
    /\ pc' = "done"
    /\ UNCHANGED <<layout, registry, Regions, err, call, parserVars, codegenVars>>

Next == BuildPhase \/ ResolvePhase \/ ValidatePhase \/ DetectPhase

Spec == Init /\ [][Next]_vars

TypeOK ==
    /\ pc \in {"build", "resolve", "validate", "detect", "done", "panic"}
    /\ Len(Regions) <= Len(layout.Fields)

----------------------------------------------------------------------------
(* Analyze over field types of every form, with registered types and aliases *)

Pointer(t) == <<PtrTok>> \o t

(* field declarations of the Fixed type cases, for a buffer of TypeSize bytes *)
TypeDecls ==
    { FixedAt(T("uint16"), 0),
      FixedAt(T("uint64"), TypeSize - 7),
      FixedAt(ArrayOf(2, T("Ref")), TypeSize - 8),
      FixedAt(T("Elem"), 2),
      FixedAt(Pointer(T("Elem")), 0),
      FixedAt(T("Nope"), 0),
      FixedAt(Bytes, 0),
      FixedAt(ArrayOf(2, Pointer(T("Elem"))), 0),
      FixedAt(ArrayOf(2, Bytes), 0),
      Dynamic(Bytes, StartEnd, -1, EmptyString) }

(* field declarations of the start-end and end-start type cases *)
ElemDecls ==
    { FixedAt(T("uint16"), 0),
      FixedAt(ArrayOf(2, Pointer(T("Elem"))), 0),
      Dynamic(T("uint64"), StartEnd, -1, EmptyString),
      Dynamic(SliceOf(Bytes), StartEnd, -1, EmptyString),
      Dynamic(SliceOf(Pointer(T("Elem"))), EndStart, -1, EmptyString),
      Dynamic(SliceOf(T("Nope")), StartEnd, -1, EmptyString),
      Dynamic(Bytes, StartEnd, -1, EmptyString),
      Dynamic(SliceOf(T("Ref")), EndStart, -1, <<"F1">>) }

(* field declarations with elements of size 0 *)
ZeroDecls ==
    { FixedAt(T("uint16"), 0),
      Dynamic(Bytes, StartEnd, -1, <<"F1">>),
      Dynamic(SliceOf(T("Empty")), StartEnd, -1, <<"F1">>),
      Dynamic(SliceOf(T("Empty")), StartEnd, -1, <<"F1", "N">>),
      Dynamic(SliceOf(ArrayOf(0, T("byte"))), EndStart, -1, <<"F1">>) }

TypeLayouts ==
    LayoutsOver(TypeDecls, TypeSize) \cup LayoutsOver(ElemDecls, TypeSize)
      \cup LayoutsOver(ZeroDecls, TypeSize)

Registry1 ==
    [types   |-> [t \in {T("Elem"), T("Empty")} |-> IF t = T("Elem") THEN 4 ELSE 0],
     aliases |-> [t \in {T("Ref")} |-> T("Elem")]]

TypeInit ==
    /\ layout \in TypeLayouts
    /\ registry = Registry1
    /\ Regions = <<>>
    /\ Errors = <<>>
    /\ err = NoErr
    /\ pc = "build"
    /\ call = NoCall
    /\ ParserIdle
    /\ CodegenIdle

TypeSpec == TypeInit /\ [][Next]_vars

----------------------------------------------------------------------------
(* TypeRegistry.SizeOf followed step by step: one step per recursive call *)
(* on an array element and one per iteration of the loop of ResolveType   *)

MaxArrayLen == 2

AliasNames == {T("A"), T("B"), T("C")}

AliasTargets == AliasNames \cup {T("uint64"), T("uint16"), T("Elem")}

(* the registries RegisterAlias can build over AliasNames, cyclic ones included *)
Registries ==
    { [types |-> [t \in {T("Elem")} |-> 4], aliases |-> a] :
        a \in UNION { [D -> AliasTargets] : D \in SUBSET AliasNames } }

SizeArgs ==
    AliasNames
      \cup { ArrayOf(n, T("A")) : n \in 0..MaxArrayLen }
      \cup { ArrayOf(MaxArrayLen, ArrayOf(n, T("B"))) : n \in 1..MaxArrayLen }
      \cup { T("uint64"), T("Elem"), T("Nope"), SliceOf(T("A")),
             ArrayOf(MaxArrayLen, SliceOf(T("A"))), <<PtrTok, Name("A")>> }

NoLayout == [Name |-> "", Anno |-> [Size |-> 0], Fields |-> <<>>]

SizeInit ==
    /\ layout = NoLayout
    /\ registry \in Registries
    /\ Regions = <<>>
    /\ Errors = <<>>
    /\ err = NoErr
    /\ pc = "sizeOf"
    /\ \E t \in SizeArgs :
          call = [arg |-> t, goType |-> t, mult |-> 1, depth |-> 0,
                  iter |-> 0, size |-> 0, err |-> NoErr]
    /\ ParserIdle
    /\ CodegenIdle

(* a result (size, e) handed back through the pending array frames: each    *)
(* passes an error on, rejects a dynamic element, or multiplies by its length *)
Unwind(c, size, e) ==
    IF e # NoErr THEN [c EXCEPT !.size = 0, !.err = e]
    ELSE IF c.depth > 0 /\ size < 0
    THEN [c EXCEPT !.size = 0, !.err = "array of dynamic type"]
    ELSE [c EXCEPT !.size = c.mult * size, !.err = NoErr]

(* strings.HasPrefix(goType, "[]"): return -1, nil *)
SizeOfSlice ==
    /\ pc = "sizeOf"
    /\ call.goType # <<>> /\ Head(call.goType).k = "slice"
    /\ call' = Unwind(call, -1, NoErr)
    /\ pc' = "returned"
    /\ UNCHANGED <<layout, registry, Regions, Errors, err, parserVars, codegenVars>>

(* arrayRe matches: the recursive call r.SizeOf(elemType) *)
SizeOfArray ==
    /\ pc = "sizeOf"
    /\ call.goType # <<>> /\ Head(call.goType).k = "arr" /\ Len(call.goType) > 1
    /\ call' = [call EXCEPT !.goType = Tail(call.goType),
                            !.mult = call.mult * Head(call.goType).n,
                            !.depth = call.depth + 1]
    /\ UNCHANGED <<layout, registry, Regions, Errors, err, pc, parserVars, codegenVars>>

(* neither: the call r.ResolveType(goType) *)
SizeOfResolve ==
    /\ pc = "sizeOf"
    /\ ~(call.goType # <<>> /\ Head(call.goType).k = "slice")
    /\ ~(call.goType # <<>> /\ Head(call.goType).k = "arr" /\ Len(call.goType) > 1)
    /\ pc' = "resolveType"
    /\ UNCHANGED <<layout, registry, Regions, Errors, err, call, parserVars, codegenVars>>

(* variant: an alias is followed once and its target taken as resolved *)
ResolveStep_Once ==
    /\ pc = "resolveType"
    /\ call.goType \in DOMAIN registry.aliases
    /\ LET resolved == registry.aliases[call.goType]
           builtin  == SizeOf(resolved)
           found    == Lookup(registry, resolved)
       IN  call' = IF builtin.err = NoErr THEN Unwind(call, builtin.size, NoErr)
                   ELSE IF found.ok THEN Unwind(call, found.size, NoErr)
                   ELSE Unwind(call, 0, "unknown type (not registered)")
    /\ pc' = "returned"
    /\ UNCHANGED <<layout, registry, Regions, Errors, err, parserVars, codegenVars>>

(* one iteration of the loop of ResolveType that finds an alias; iter is   *)
(* the parity of the number of iterations made                              *)
ResolveStep ==
    /\ pc = "resolveType"
    /\ call.goType \in DOMAIN registry.aliases
    /\ call' = [call EXCEPT !.goType = registry.aliases[call.goType],
                            !.iter = (call.iter + 1) % 2]
    /\ UNCHANGED <<layout, registry, Regions, Errors, err, pc, parserVars, codegenVars>>

(* the break of the loop, and the rest of SizeOf on the resolved type *)
ResolveReturn ==
    /\ pc = "resolveType"
    /\ call.goType \notin DOMAIN registry.aliases
    /\ LET builtin == SizeOf(call.goType)
           found   == Lookup(registry, call.goType)
       IN  call' = IF builtin.err = NoErr THEN Unwind(call, builtin.size, NoErr)
                   ELSE IF found.ok THEN Unwind(call, found.size, NoErr)
                   ELSE Unwind(call, 0, "unknown type (not registered)")
    /\ pc' = "returned"
    /\ UNCHANGED <<layout, registry, Regions, Errors, err, parserVars, codegenVars>>

SizeNext == SizeOfSlice \/ SizeOfArray \/ SizeOfResolve \/ ResolveStep \/ ResolveReturn

(* the call runs on its own goroutine stack: it takes its next step whenever *)
(* it has one                                                                *)
SizeSpec == SizeInit /\ [][SizeNext]_vars /\ WF_vars(SizeNext)

----------------------------------------------------------------------------
(* Vocabulary of the properties *)

Finished == pc = "done"

ValidResult == Finished /\ err = NoErr /\ IsValid

BufferSize == layout.Anno.Size

(* every field built a region and phase 2 has run *)
Resolved == pc \in {"validate", "detect"} \/ (Finished /\ Len(Regions) = Len(layout.Fields))

Anchored(r) == r.Kind = DynamicRegion /\ r.Field.Layout.StartAt >= 0

Lo(r) == IF r.Direction = EndStart THEN r.Boundary ELSE r.Start

Hi(r) == IF r.Direction = EndStart THEN r.Start ELSE r.Boundary

Intersect(r1, r2) ==
    /\ Lo(r1) < Hi(r1)
    /\ Lo(r2) < Hi(r2)
    /\ Lo(r1) < Hi(r2)
    /\ Lo(r2) < Hi(r1)

RegionIdx(name) == CHOOSE i \in 1..Len(Regions) : Regions[i].Field.Name = name

RegionOf(name) == Regions[RegionIdx(name)]

----------------------------------------------------------------------------
(* C1: in a valid result no two distinct regions' intervals intersect,     *)
(* whatever the kinds of the two regions                                    *)
C1_NonOverlap ==
    ValidResult =>
        \A i, j \in 1..Len(Regions) : i < j => ~Intersect(Regions[i], Regions[j])

(* C2: in a valid result no Fixed region starts below 0 and no explicitly  *)
(* anchored dynamic region starts beyond the buffer or has its boundary     *)
(* outside [0, bufferSize]                                                  *)
C2_InsideBuffer ==
    ValidResult =>
        \A i \in 1..Len(Regions) :
            LET r == Regions[i]
            IN  /\ r.Kind = FixedRegion => r.Start >= 0
                /\ Anchored(r) => /\ r.Start <= BufferSize
                                  /\ r.Boundary >= 0
                                  /\ r.Boundary <= BufferSize

(* C3: in a valid result every StartEnd region has start < boundary, every *)
(* EndStart region boundary < start, every Fixed region boundary = start +  *)
(* size of its type                                                         *)
C3_Oriented ==
    ValidResult =>
        \A i \in 1..Len(Regions) :
            LET r == Regions[i]
            IN  /\ r.Direction = StartEnd => r.Start < r.Boundary
                /\ r.Direction = EndStart => r.Boundary < r.Start
                /\ r.Kind = FixedRegion =>
                      r.Boundary = r.Start + RegSizeOf(registry, r.Field.GoType).size

(* C4: when the layout passes region building and count validation, every  *)
(* pair of Fixed fields with overlapping intervals has a collision entry    *)
(* naming the pair, and the result is invalid                               *)
C4_FixedOverlapReported ==
    (Finished /\ err = NoErr) =>
        \A i, j \in 1..Len(Regions) :
            (/\ i < j
             /\ Regions[i].Kind = FixedRegion
             /\ Regions[j].Kind = FixedRegion
             /\ Intersect(Regions[i], Regions[j]))
            => /\ ~IsValid
               /\ \E k \in 1..Len(Errors) :
                     /\ Errors[k].kind = "collision"
                     /\ {Errors[k].a, Errors[k].b}
                          = {Regions[i].Field.Name, Regions[j].Field.Name}

(* C5: an unanchored start-end field declared right after a fixed field    *)
(* and right before a fixed field starts at the boundary of the former and  *)
(* ends at the start of the latter; stated for the placements in which the  *)
(* former ends at or before the start of the latter                         *)
C5_StartEndFill ==
    Resolved =>
        \A i \in 2..(Len(layout.Fields) - 1) :
            (/\ layout.Fields[i - 1].Layout.Direction = Fixed
             /\ layout.Fields[i].Layout.Direction = StartEnd
             /\ layout.Fields[i].Layout.StartAt < 0
             /\ layout.Fields[i + 1].Layout.Direction = Fixed
             /\ RegionOf(layout.Fields[i - 1].Name).Boundary
                    <= RegionOf(layout.Fields[i + 1].Name).Start)
            => /\ RegionOf(layout.Fields[i].Name).Start
                    = RegionOf(layout.Fields[i - 1].Name).Boundary
               /\ RegionOf(layout.Fields[i].Name).Boundary
                    = RegionOf(layout.Fields[i + 1].Name).Start

(* C6: a start-end byte slice without count, with no fixed or anchored     *)
(* field after it and with another dynamic field after it, makes Analyze    *)
(* fail                                                                     *)
C6_MissingCountRejected ==
    Finished =>
        \A i \in 1..Len(layout.Fields) :
            (/\ layout.Fields[i].Layout.Direction = StartEnd
             /\ layout.Fields[i].GoType = Bytes
             /\ layout.Fields[i].Layout.CountField = EmptyString
             /\ \A j \in (i + 1)..Len(layout.Fields) :
                   /\ layout.Fields[j].Layout.Direction # Fixed
                   /\ layout.Fields[j].Layout.StartAt < 0
             /\ i < Len(layout.Fields))
            => (err # NoErr /\ ~IsValid)

----------------------------------------------------------------------------
(* Count rules *)

BuildPassed == Len(Regions) = Len(layout.Fields)

CountRequired == {"requires count (struct slice)", "requires count (no fixed boundary)"}

StructNoCount(r) ==
    /\ r.Kind = DynamicRegion
    /\ r.ElementType # T("byte")
    /\ r.Field.Layout.CountField = EmptyString

(* validation of the regions before index i raises nothing *)
Reached(i) ==
    \A j \in 1..(i - 1) : validateRegion(Regions, Regions[j], layout, BufferSize) = NoErr

IntegerBits(goType) ==
    IF goType \in {T("uint8"), T("int8")} THEN 8
    ELSE IF goType \in {T("uint16"), T("int16")} THEN 16
    ELSE IF goType \in {T("uint32"), T("int32")} THEN 32
    ELSE IF goType \in {T("uint64"), T("int64")} THEN 64
    ELSE 0

(* the declared type of the field a non-dotted count reference names *)
CountTypeOf(r) ==
    LET cf == r.Field.Layout.CountField
    IN  IF Len(cf) = 1 /\ \E k \in 1..Len(layout.Fields) : layout.Fields[k].Name = cf[1]
        THEN (CHOOSE f \in {layout.Fields[k] : k \in 1..Len(layout.Fields)} :
                 f.Name = cf[1]).GoType
        ELSE EmptyString

HasIntegerCount(r) == r.Kind = DynamicRegion /\ IntegerBits(CountTypeOf(r)) > 0

IntervalSize(r) == IF Hi(r) - Lo(r) < 0 THEN 0 ELSE Hi(r) - Lo(r)

CeilElements(r) == (IntervalSize(r) + r.ElementSize - 1) \div r.ElementSize

OverflowReported(r) ==
    \E k \in 1..Len(Errors) :
        Errors[k].kind = "count overflow" /\ Errors[k].a = r.Field.Name

(* what the claim takes as capacity overflow of a region *)
ExceedsClaimed(r) ==
    LET bits == IntegerBits(CountTypeOf(r))
    IN  \/ bits = 8 /\ CeilElements(r) > 255
        \/ bits = 16 /\ CeilElements(r) > 65535
        \/ bits = 32 /\ CeilElements(r) > 2147483647

----------------------------------------------------------------------------
(* Declaration order *)

FieldOrders(n) == { p \in [1..n -> 1..n] : \A i, j \in 1..n : p[i] = p[j] => i = j }

(* the layouts that declare the same fields in another order *)
Reorderings(lay) ==
    { [lay EXCEPT !.Fields = [i \in 1..Len(lay.Fields) |-> lay.Fields[p[i]]]] :
        p \in FieldOrders(Len(lay.Fields)) }

Intervals(regions) ==
    { <<regions[i].Field.Name, regions[i].Start, regions[i].Boundary>> :
        i \in 1..Len(regions) }

(* where a field sorts before phase 2 resolves it: its offset, its anchor,  *)
(* or the placeholder of its direction                                      *)
InitialStart(f) ==
    IF f.Layout.Direction = Fixed THEN f.Layout.Offset
    ELSE IF f.Layout.StartAt >= 0 THEN f.Layout.StartAt
    ELSE IF f.Layout.Direction = EndStart THEN BufferSize
    ELSE 0

DistinctInitialStarts ==
    \A i, j \in 1..Len(layout.Fields) :
        i # j => InitialStart(layout.Fields[i]) # InitialStart(layout.Fields[j])

SameOutcome(a) ==
    /\ Intervals(a.Regions) = Intervals(Regions)
    /\ (Len(a.Errors) = 0) = IsValid

----------------------------------------------------------------------------
(* Alias chains *)

RECURSIVE Follow(_, _, _)

(* the type k alias steps after t, or the first non-alias on the way *)
Follow(r, t, k) ==
    IF k = 0 \/ t \notin DOMAIN r.aliases THEN t
    ELSE Follow(r, r.aliases[t], k - 1)

ChainEnd(r, t) == Follow(r, t, Cardinality(DOMAIN r.aliases))

(* a chain that has not left the aliases after as many steps as there are   *)
(* aliases has visited one of them twice                                    *)
Acyclic(r, t) == ChainEnd(r, t) \notin DOMAIN r.aliases

RECURSIVE ElemBase(_)

(* T of [N]T, [M][N]T, ... *)
ElemBase(t) ==
    IF t # <<>> /\ Head(t).k = "arr" /\ Len(t) > 1 THEN ElemBase(Tail(t)) ELSE t

RECURSIVE ArrayCount(_)

(* N of [N]T, M * N of [M][N]T, 1 of T *)
ArrayCount(t) ==
    IF t # <<>> /\ Head(t).k = "arr" /\ Len(t) > 1
    THEN Head(t).n * ArrayCount(Tail(t)) ELSE 1

PrimitiveWidth(t) ==
    IF t \in {T("uint8"), T("int8"), T("byte"), T("bool")} THEN 1
    ELSE IF t \in {T("uint16"), T("int16")} THEN 2
    ELSE IF t \in {T("uint32"), T("int32"), T("float32")} THEN 4
    ELSE IF t \in {T("uint64"), T("int64"), T("float64")} THEN 8
    ELSE 0

(* a primitive or a registered struct *)
Terminal(r, t) == PrimitiveWidth(t) > 0 \/ t \in DOMAIN r.types

TerminalSize(r, t) == IF PrimitiveWidth(t) > 0 THEN PrimitiveWidth(t) ELSE r.types[t]

Returned == pc = "returned"

(* C17: every call of TypeRegistry.SizeOf returns, and a call on an alias   *)
(* (or an array of an alias) whose chain runs into a cycle returns an error *)
C17_Terminates ==
    <>(/\ Returned
       /\ (/\ ElemBase(call.arg) \in DOMAIN registry.aliases
           /\ ~Acyclic(registry, ElemBase(call.arg))) => call.err # NoErr)

(* C18: for an alias whose chain is acyclic and ends in a primitive or a    *)
(* registered struct T, SizeOf(alias) = SizeOf(T), and SizeOf of an array   *)
(* of the alias is the number of elements times SizeOf(T)                   *)
C18_AliasSize ==
    Returned =>
        LET base == ElemBase(call.arg)
            end  == ChainEnd(registry, base)
        IN  (/\ base \in DOMAIN registry.aliases
             /\ Acyclic(registry, base)
             /\ Terminal(registry, end))
            => /\ call.err = NoErr
               /\ call.size = ArrayCount(call.arg) * TerminalSize(registry, end)

(* [N]A with A -> B -> C -> uint64 is N * 8 bytes, N > 1 *)
C18_Witness ==
    /\ Returned
    /\ call.arg = ArrayOf(MaxArrayLen, T("A"))
    /\ T("A") \in DOMAIN registry.aliases /\ registry.aliases[T("A")] = T("B")
    /\ T("B") \in DOMAIN registry.aliases /\ registry.aliases[T("B")] = T("C")
    /\ T("C") \in DOMAIN registry.aliases /\ registry.aliases[T("C")] = T("uint64")
    /\ call.size = MaxArrayLen * 8
    /\ call.err = NoErr

----------------------------------------------------------------------------
(* Region building *)

(* the size the registry gives a type that is a primitive, a registered     *)
(* struct, an alias of one, or an array of those                            *)
DeclaredSize(r, t) ==
    ArrayCount(t) * TerminalSize(r, ChainEnd(r, ElemBase(t)))

HasDeclaredSize(r, t) ==
    /\ Acyclic(r, ElemBase(t))
    /\ Terminal(r, ChainEnd(r, ElemBase(t)))

OnlyFixed == \A i \in 1..Len(layout.Fields) : layout.Fields[i].Layout.Direction = Fixed

Built == pc # "build"

(* C11: in a layout of Fixed fields only that passes region building, every *)
(* region starts at the declared offset of its field and spans the size the *)
(* registry gives the field's type, after building and in the final result  *)
C11_FixedRoundTrip ==
    (Built /\ OnlyFixed /\ BuildPassed) =>
        /\ \A i \in 1..Len(layout.Fields) :
              \E j \in 1..Len(Regions) : Regions[j].Field = layout.Fields[i]
        /\ \A j \in 1..Len(Regions) :
              LET r == Regions[j]
              IN  /\ r.Kind = FixedRegion
                  /\ r.Start = r.Field.Layout.Offset
                  /\ HasDeclaredSize(registry, r.Field.GoType)
                  /\ r.Boundary - r.Start = DeclaredSize(registry, r.Field.GoType)

(* a primitive, a registered struct and an array of an alias, declared out  *)
(* of offset order, in the final result                                     *)
C11_Witness ==
    /\ Finished /\ OnlyFixed /\ BuildPassed
    /\ Len(Regions) = 3
    /\ {Regions[j].Field.GoType : j \in 1..3}
          = {T("uint16"), T("Elem"), ArrayOf(2, T("Ref"))}
    /\ Regions[1].Field.Name # "F1"
    /\ Regions[3].Boundary - Regions[3].Start = 8

ExceedsBufferErrors ==
    { Errors[k].a : k \in { n \in 1..Len(Errors) : Errors[n].kind = "exceeds buffer size" } }

(* C13: a Fixed field whose type has a size is rejected with the            *)
(* exceeds-buffer error exactly when offset + size > bufferSize             *)
C13_ExceedsBuffer ==
    Built =>
        \A i \in 1..Len(layout.Fields) :
            LET f == layout.Fields[i]
            IN  (f.Layout.Direction = Fixed /\ HasDeclaredSize(registry, f.GoType)) =>
                   /\ (f.Layout.Offset + DeclaredSize(registry, f.GoType) > BufferSize)
                         <=> f.Name \in ExceedsBufferErrors
                   /\ f.Name \in ExceedsBufferErrors =>
                         /\ err # NoErr
                         /\ \A j \in 1..Len(Regions) : Regions[j].Field.Name # f.Name

(* one field is rejected for ending one byte past the buffer while another  *)
(* that ends exactly at the end of the buffer builds its region             *)
C13_Witness ==
    /\ Finished
    /\ \E i, j \in 1..Len(layout.Fields) :
          /\ layout.Fields[i].Layout.Direction = Fixed
          /\ layout.Fields[i].Name \in ExceedsBufferErrors
          /\ layout.Fields[i].Layout.Offset + 8 = BufferSize + 1
          /\ layout.Fields[j].Layout.Direction = Fixed
          /\ \E k \in 1..Len(Regions) :
                /\ Regions[k].Field.Name = layout.Fields[j].Name
                /\ Regions[k].Boundary = BufferSize

FailsBuild(f) == buildRegion(f, BufferSize, registry).err # NoErr

PassesBuild(f) == ~FailsBuild(f)

FailingFields == SelectSeq(layout.Fields, FailsBuild)

PassingFields == SelectSeq(layout.Fields, PassesBuild)

(* C14: when k >= 1 fields fail region building, Analyze returns right      *)
(* after phase 1 with a non-nil error and exactly one entry per failing     *)
(* field, in declaration order; the regions are those of the other fields   *)
(* as built, dynamic ones with boundary -1, and no other entry is recorded  *)
C14_BuildErrorsCollected ==
    (Built /\ Len(FailingFields) >= 1) =>
        /\ Finished
        /\ err # NoErr
        /\ Len(Errors) = Len(FailingFields)
        /\ \A k \in 1..Len(Errors) :
              /\ Errors[k].a = FailingFields[k].Name
              /\ Errors[k].kind = buildRegion(FailingFields[k], BufferSize, registry).err
        /\ Len(Regions) = Len(PassingFields)
        /\ \A j \in 1..Len(Regions) :
              /\ Regions[j].Field = PassingFields[j]
              /\ Regions[j].Kind = DynamicRegion => Regions[j].Boundary = -1

(* two fields fail for different reasons around a dynamic field that builds *)
C14_Witness ==
    /\ Finished
    /\ Len(layout.Fields) = 3
    /\ Len(Errors) = 2
    /\ Errors[1].a = "F1" /\ Errors[2].a = "F3"
    /\ Errors[1].kind # Errors[2].kind
    /\ Len(Regions) = 1
    /\ Regions[1].Kind = DynamicRegion
    /\ Regions[1].Boundary = -1

----------------------------------------------------------------------------
(* Types without a binary representation *)

IsPointer(t) == t # <<>> /\ Head(t).k = "ptr"

IsSlice(t) == t # <<>> /\ Head(t).k = "slice"

(* a name that is no primitive, no registered struct and no alias *)
Unregistered(r, t) ==
    /\ Len(t) = 1 /\ Head(t).k = "name"
    /\ PrimitiveWidth(t) = 0
    /\ t \notin DOMAIN r.types
    /\ t \notin DOMAIN r.aliases

Unrepresentable(r, t) == IsPointer(t) \/ IsSlice(t) \/ Unregistered(r, t)

BadFixedType(r, t) ==
    \/ Unrepresentable(r, t)
    \/ t # <<>> /\ Head(t).k = "arr" /\ Len(t) > 1 /\ Unrepresentable(r, Tail(t))

BadDynamicType(r, t) ==
    \/ ~IsSlice(t)
    \/ IsSlice(t) /\ Len(t) > 1 /\ Unrepresentable(r, Tail(t))

BadType(f) ==
    IF f.Layout.Direction = Fixed THEN BadFixedType(registry, f.GoType)
    ELSE BadDynamicType(registry, f.GoType)

HasBuildError(f) == \E k \in 1..Len(Errors) : Errors[k].a = f.Name /\ Errors[k].b = ""

(* C19: a Fixed field whose type is a pointer, an unregistered name, a      *)
(* slice or an array of one of those, and a start-end or end-start field    *)
(* whose type is no slice or whose element type is a slice, a pointer or an *)
(* unregistered name, gets an error entry of its own and no region, and     *)
(* Analyze fails; the keys of the registry are type names                   *)
C19_BadTypesRejected ==
    Built =>
        \A i \in 1..Len(layout.Fields) :
            BadType(layout.Fields[i]) =>
                /\ Finished
                /\ err = "layout has errors"
                /\ ~IsValid
                /\ HasBuildError(layout.Fields[i])
                /\ \A j \in 1..Len(Regions) : Regions[j].Field.Name # layout.Fields[i].Name

(* an array of pointers declared Fixed and a slice of slices declared       *)
(* start-end are both rejected next to a field that builds                  *)
C19_Witness ==
    /\ Finished
    /\ Len(Regions) = 1
    /\ \E i, j \in 1..Len(layout.Fields) :
          /\ layout.Fields[i].Layout.Direction = Fixed
          /\ layout.Fields[i].GoType = ArrayOf(2, Pointer(T("Elem")))
          /\ HasBuildError(layout.Fields[i])
          /\ layout.Fields[j].Layout.Direction = StartEnd
          /\ layout.Fields[j].GoType = SliceOf(Bytes)
          /\ HasBuildError(layout.Fields[j])

----------------------------------------------------------------------------
(* Runtime panics *)

(* C20: Analyze returns a result for every layout, also when the element    *)
(* type of a dynamic field with a non-dotted count field has size 0: it     *)
(* never ends in a runtime panic                                            *)
C20_NeverPanics == pc # "panic"

----------------------------------------------------------------------------
(* Backward growth *)

UnanchoredEndStart(r) ==
    r.Kind = DynamicRegion /\ r.Direction = EndStart /\ r.Field.Layout.StartAt < 0

Max(S) == CHOOSE m \in S : \A n \in S : n <= m

(* the regions before index i, in start order, that are fixed or anchored *)
PrecedingPlaced(i) ==
    { j \in 1..(i - 1) : Regions[j].Kind = FixedRegion \/ Anchored(Regions[j]) }

(* the end of the nearest of them, 0 if there is none *)
PrecedingEnd(i) ==
    IF PrecedingPlaced(i) = {} THEN 0 ELSE Hi(Regions[Max(PrecedingPlaced(i))])

PrecedingLimits(i) ==
    { j \in 1..(i - 1) :
        \/ Regions[j].Kind = FixedRegion
        \/ Regions[j].Direction = StartEnd /\ Anchored(Regions[j]) }

(* the end of a fixed region, the start of an anchored start-end region *)
PrecedingLimit(i) ==
    IF PrecedingLimits(i) = {} THEN 0
    ELSE LET p == Regions[Max(PrecedingLimits(i))]
         IN  IF p.Kind = FixedRegion THEN p.Boundary ELSE p.Start

----------------------------------------------------------------------------
(* Defects found after region building *)

(* the regions that violate a count rule *)
CountDefects ==
    { i \in 1..Len(Regions) :
        validateRegion(Regions, Regions[i], layout, BufferSize) \notin {NoErr, "panic"} }

CountDefectEntry(i) ==
    ErrEntry(validateRegion(Regions, Regions[i], layout, BufferSize),
             Regions[i].Field.Name, "")

(* the pairs of fixed regions, neighbours in start order, that overlap *)
CollisionDefects ==
    { i \in 1..(Len(Regions) - 1) :
        /\ Regions[i].Kind = FixedRegion
        /\ Regions[i + 1].Kind = FixedRegion
        /\ Regions[i].Boundary > Regions[i + 1].Start }

CollisionEntry(i) == ErrEntry("collision", Regions[i].Field.Name, Regions[i + 1].Field.Name)

Recorded(e) == \E k \in 1..Len(Errors) : Errors[k] = e

NoPanic == \A i \in 1..Len(Regions) :
               validateRegion(Regions, Regions[i], layout, BufferSize) # "panic"

RECURSIVE CollisionEntries(_)

(* the entries of the overlapping neighbour pairs from index i on, in order *)
CollisionEntries(i) ==
    IF i > Len(Regions) - 1 THEN <<>>
    ELSE (IF i \in CollisionDefects THEN <<CollisionEntry(i)>> ELSE <<>>)
            \o CollisionEntries(i + 1)

----------------------------------------------------------------------------
(* Count references *)

FieldsNamed(name) == { i \in 1..Len(layout.Fields) : layout.Fields[i].Name = name }

(* the cases in which a count reference is to be accepted *)
AcceptedReference(ref) ==
    \/ /\ Len(ref) = 1
       /\ \E i \in FieldsNamed(ref[1]) : IntegerBits(layout.Fields[i].GoType) > 0
    \/ /\ Len(ref) = 2
       /\ FieldsNamed(ref[1]) # {}

ReferenceErrors ==
    { "invalid nested reference", "count field parent not found",
      "count field not found", "count field must be an integer type" }

ReferenceRejected(r) ==
    \E k \in 1..Len(Errors) : Errors[k].kind \in ReferenceErrors /\ Errors[k].a = r.Field.Name

HasReference(r) == r.Kind = DynamicRegion /\ r.Field.Layout.CountField # EmptyString

(* C16: a count reference is accepted when it is the name of a field of an   *)
(* integer type, or a name with one dot whose first part is a field; any     *)
(* other reference (unknown field, other type, more dots) makes Analyze      *)
(* fail, and is the error recorded when validation reaches its region, and   *)
(* an accepted reference is never recorded as a reference error              *)
C16_CountReference ==
    (Finished /\ BuildPassed) =>
        \A i \in 1..Len(Regions) :
            HasReference(Regions[i]) =>
                LET ref == Regions[i].Field.Layout.CountField
                IN  /\ ~AcceptedReference(ref) => (err # NoErr /\ ~IsValid)
                    /\ AcceptedReference(ref) => ~ReferenceRejected(Regions[i])
                    /\ Reached(i) =>
                          (ReferenceRejected(Regions[i]) <=> ~AcceptedReference(ref))

(* a dotted reference to an existing field and a reference to an 8-byte     *)
(* integer field are accepted in one valid layout                           *)
C16_Witness ==
    /\ ValidResult /\ BuildPassed
    /\ \E i, j \in 1..Len(Regions) :
          /\ HasReference(Regions[i])
          /\ Len(Regions[i].Field.Layout.CountField) = 2
          /\ HasReference(Regions[j])
          /\ Len(Regions[j].Field.Layout.CountField) = 1
          /\ CountTypeOf(Regions[j]) = T("uint64")

----------------------------------------------------------------------------
(* Inputs and outputs of Analyze *)

(* C21: no step of Analyze changes the TypeLayout or the maps of the        *)
(* TypeRegistry it was called with                                          *)
C21_InputsUnchanged == [][layout' = layout /\ registry' = registry]_vars

(* a call that failed after phase 2 reordered its regions *)
C21_Witness ==
    /\ Finished /\ BuildPassed
    /\ err # NoErr
    /\ Len(Regions) >= 2
    /\ Regions[1].Field.Name # layout.Fields[1].Name

(* C30: a non-nil error of Analyze comes with a non-empty Errors list, and  *)
(* a nil error comes with entries in Errors only if all are collisions      *)
C30_ErrorAndErrors ==
    Finished =>
        /\ err # NoErr => Len(Errors) > 0
        /\ (err = NoErr /\ Len(Errors) > 0) =>
              \A k \in 1..Len(Errors) : Errors[k].kind = "collision"

(* a nil error together with a collision entry *)
C30_Witness ==
    /\ Finished
    /\ err = NoErr
    /\ Len(Errors) > 0
    /\ Errors[1].kind = "collision"

----------------------------------------------------------------------------
(* Byte slices without count *)

BytesNoCount(r) ==
    /\ r.Kind = DynamicRegion
    /\ r.ElementType = T("byte")
    /\ r.Field.Layout.CountField = EmptyString

(* the case in which a byte slice without count is to be rejected *)
Unbounded(r) ==
    IF r.Direction = EndStart
    THEN /\ r.Boundary = 0
         /\ \E j \in 1..Len(Regions) :
               Regions[j].Kind = DynamicRegion /\ Regions[j].Start < r.Start
    ELSE /\ r.Boundary = BufferSize
         /\ \E j \in 1..Len(Regions) :
               Regions[j].Kind = DynamicRegion /\ Regions[j].Start > r.Start

Rejected(r) == \E k \in 1..Len(Errors) : Errors[k].a = r.Field.Name /\ Errors[k].b = ""

----------------------------------------------------------------------------
(* Order of the region list *)

(* C27: when detectCollisions runs, the region list is in ascending order   *)
(* of the resolved starts                                                   *)
C27_SortedAtDetection ==
    pc = "detect" =>
        \A i \in 1..(Len(Regions) - 1) : Regions[i].Start <= Regions[i + 1].Start

----------------------------------------------------------------------------
(* Go strings handled character by character: a string is the sequence of *)
(* its one-character strings, "@4" is <<"@", "4">> and "" is <<>>         *)

HasPrefix(s, prefix) ==
    Len(s) >= Len(prefix) /\ SubSeq(s, 1, Len(prefix)) = prefix

TrimPrefix(s, prefix) ==
    IF HasPrefix(s, prefix) THEN SubSeq(s, Len(prefix) + 1, Len(s)) ELSE s

RECURSIVE SplitFrom(_, _, _)
SplitFrom(s, sep, cur) ==
    IF s = <<>> THEN <<cur>>
    ELSE IF Head(s) = sep THEN <<cur>> \o SplitFrom(Tail(s), sep, <<>>)
    ELSE SplitFrom(Tail(s), sep, Append(cur, Head(s)))

(* strings.Split(s, sep) for a separator of one character *)
Split(s, sep) == SplitFrom(s, sep, <<>>)

(* strings.SplitN(s, sep, 2): cut at the first separator, if there is one *)
SplitN2(s, sep) ==
    IF \E i \in 1..Len(s) : s[i] = sep
    THEN LET i == CHOOSE k \in 1..Len(s) :
                      s[k] = sep /\ \A j \in 1..(k - 1) : s[j] # sep
         IN  <<SubSeq(s, 1, i - 1), SubSeq(s, i + 1, Len(s))>>
    ELSE <<s>>

Digits == <<"0", "1", "2", "3", "4", "5", "6", "7", "8", "9">>

IsDigit(c) == \E d \in 1..Len(Digits) : Digits[d] = c

DigitValue(c) == (CHOOSE d \in 1..Len(Digits) : Digits[d] = c) - 1

RECURSIVE atoiDigits(_, _)
atoiDigits(s, n) ==
    IF s = <<>> THEN n ELSE atoiDigits(Tail(s), n * 10 + DigitValue(Head(s)))

(* strconv.Atoi: an optional sign and at least one decimal digit *)
Atoi(s) ==
    LET signed == s # <<>> /\ Head(s) \in {"+", "-"}
        body   == IF signed THEN Tail(s) ELSE s
    IN  IF body = <<>> \/ \E i \in 1..Len(body) : ~IsDigit(body[i])
        THEN [val |-> 0, err |-> "invalid syntax"]
        ELSE [val |-> IF signed /\ Head(s) = "-" THEN 0 - atoiDigits(body, 0)
                      ELSE atoiDigits(body, 0),
              err |-> NoErr]

----------------------------------------------------------------------------
(* parser.ParseTag *)

(* &FieldLayout{Offset: -1, StartAt: -1}: the other fields have their zero *)
(* values, Direction the zero value Fixed                                  *)
NewFieldLayout ==
    [Offset |-> -1, Direction |-> Fixed, StartAt |-> -1, CountField |-> <<>>,
     From |-> <<>>, OffsetField |-> <<>>, SizeField |-> <<>>, Region |-> <<>>]

(* the returned pair of a FieldLayout pointer and an error *)
TagRes(f, e) == [f |-> f, err |-> e]

parseDirection(s) ==
    IF s = <<"s", "t", "a", "r", "t", "-", "e", "n", "d">>
    THEN [dir |-> StartEnd, err |-> NoErr]
    ELSE IF s = <<"e", "n", "d", "-", "s", "t", "a", "r", "t">>
    THEN [dir |-> EndStart, err |-> NoErr]
    ELSE [dir |-> 0, err |-> "invalid direction"]

CountPrefix == <<"c", "o", "u", "n", "t", "=">>

(* the loop over parts[1:] that skips what is not a count= instead of      *)
(* returning the error                                                     *)
RECURSIVE countLoop_IgnoresUnknown(_, _, _)
countLoop_IgnoresUnknown(parts, i, countField) ==
    IF i > Len(parts) THEN [countField |-> countField, err |-> NoErr]
    ELSE IF HasPrefix(parts[i], CountPrefix)
    THEN IF TrimPrefix(parts[i], CountPrefix) = <<>>
         THEN [countField |-> <<>>, err |-> "count= requires field name"]
         ELSE countLoop_IgnoresUnknown(parts, i + 1, TrimPrefix(parts[i], CountPrefix))
    ELSE countLoop_IgnoresUnknown(parts, i + 1, countField)

(* the loop over parts[1:] of parseDirectionAndCount, from part i on *)
RECURSIVE countLoop(_, _, _)
countLoop(parts, i, countField) ==
    IF i > Len(parts) THEN [countField |-> countField, err |-> NoErr]
    ELSE IF HasPrefix(parts[i], CountPrefix)
    THEN IF TrimPrefix(parts[i], CountPrefix) = <<>>
         THEN [countField |-> <<>>, err |-> "count= requires field name"]
         ELSE countLoop(parts, i + 1, TrimPrefix(parts[i], CountPrefix))
    ELSE [countField |-> <<>>, err |-> "unknown parameter"]

parseDirectionAndCount(parts) ==
    IF Len(parts) = 0
    THEN [dir |-> 0, countField |-> <<>>, err |-> "missing direction"]
    ELSE LET d == parseDirection(parts[1])
         IN  IF d.err # NoErr
             THEN [dir |-> 0, countField |-> <<>>, err |-> d.err]
             ELSE LET c == countLoop(parts, 2, <<>>)
                  IN  IF c.err # NoErr
                      THEN [dir |-> 0, countField |-> <<>>, err |-> c.err]
                      ELSE [dir |-> d.dir, countField |-> c.countField, err |-> NoErr]

(* the loop of parseIndirectSlice over the key=value parts, from part i on *)
RECURSIVE indirectLoop(_, _, _)
indirectLoop(parts, i, f) ==
    IF i > Len(parts) THEN TagRes(f, NoErr)
    ELSE LET kv == SplitN2(parts[i], "=")
         IN  IF Len(kv) # 2 THEN TagRes("nil", "invalid indirect slice parameter")
             ELSE IF kv[1] = <<"f", "r", "o", "m">>
             THEN indirectLoop(parts, i + 1, [f EXCEPT !.From = kv[2]])
             ELSE IF kv[1] = <<"o", "f", "f", "s", "e", "t">>
             THEN indirectLoop(parts, i + 1, [f EXCEPT !.OffsetField = kv[2]])
             ELSE IF kv[1] = <<"s", "i", "z", "e">>
             THEN indirectLoop(parts, i + 1, [f EXCEPT !.SizeField = kv[2]])
             ELSE IF kv[1] = <<"r", "e", "g", "i", "o", "n">>
             THEN indirectLoop(parts, i + 1, [f EXCEPT !.Region = kv[2]])
             ELSE TagRes("nil", "unknown indirect slice parameter")

parseIndirectSlice(parts) ==
    LET r == indirectLoop(parts, 1, NewFieldLayout)
    IN  IF r.err # NoErr THEN r
        ELSE IF r.f.From = <<>> \/ r.f.OffsetField = <<>> \/ r.f.SizeField = <<>>
                   \/ r.f.Region = <<>>
        THEN TagRes("nil", "indirect slice requires all 4 params")
        ELSE r

ParseTag(t) ==
    IF t = <<>> THEN TagRes("nil", "empty layout tag")
    ELSE LET parts == Split(t, ",")
         IN  IF HasPrefix(parts[1], <<"f", "r", "o", "m", "=">>)
             THEN parseIndirectSlice(parts)
             ELSE IF HasPrefix(parts[1], <<"@">>)
             THEN LET offset == Atoi(TrimPrefix(parts[1], <<"@">>))
                  IN  IF offset.err # NoErr THEN TagRes("nil", "invalid offset")
                      ELSE IF Len(parts) = 1
                      THEN TagRes([NewFieldLayout EXCEPT !.Offset = offset.val,
                                                         !.Direction = Fixed], NoErr)
                      ELSE LET dc == parseDirectionAndCount(Tail(parts))
                           IN  IF dc.err # NoErr THEN TagRes("nil", dc.err)
                               ELSE TagRes([NewFieldLayout EXCEPT
                                               !.Offset = -1,
                                               !.Direction = dc.dir,
                                               !.StartAt = offset.val,
                                               !.CountField = dc.countField], NoErr)
             ELSE LET dc == parseDirectionAndCount(parts)
                  IN  IF dc.err # NoErr THEN TagRes("nil", dc.err)
                      ELSE TagRes([NewFieldLayout EXCEPT
                                      !.Direction = dc.dir,
                                      !.Offset = -1,
                                      !.StartAt = -1,
                                      !.CountField = dc.countField], NoErr)

----------------------------------------------------------------------------
(* parser.ParseAnnotation *)

Letters == <<"a", "b", "c", "d", "e", "f", "g", "h", "i", "j", "k", "l", "m", "n", "o", "p", "q", "r", "s", "t", "u", "v", "w", "x", "y", "z", "A", "B", "C", "D", "E", "F", "G", "H", "I", "J", "K", "L", "M", "N", "O", "P", "Q", "R", "S", "T", "U", "V", "W", "X", "Y", "Z", "_">>

(* \w of the regular expressions *)
IsWordChar(c) == IsDigit(c) \/ \E k \in 1..Len(Letters) : Letters[k] = c

(* \s of the regular expressions *)
IsSpace(c) == c = " "

(* the last position of the run of characters of one class that starts at i *)
RECURSIVE RunEnd(_, _, _)
RunEnd(s, i, dash) ==
    IF i < Len(s) /\ (IsWordChar(s[i + 1]) \/ (dash /\ s[i + 1] = "-"))
    THEN RunEnd(s, i + 1, dash)
    ELSE i

(* pairRe.FindAllStringSubmatch(params, -1) for (\w+)=([\w-]+): the       *)
(* leftmost matches from position i on, none overlapping another          *)
RECURSIVE FindAllPairs(_, _)
FindAllPairs(s, i) ==
    IF i > Len(s) THEN <<>>
    ELSE IF ~IsWordChar(s[i]) THEN FindAllPairs(s, i + 1)
    ELSE LET e == RunEnd(s, i, FALSE)
         IN  IF e + 2 <= Len(s) /\ s[e + 1] = "="
                  /\ (IsWordChar(s[e + 2]) \/ s[e + 2] = "-")
             THEN LET v == RunEnd(s, e + 2, TRUE)
                  IN  <<[key |-> SubSeq(s, i, e), value |-> SubSeq(s, e + 2, v)]>>
                        \o FindAllPairs(s, v + 1)
             ELSE FindAllPairs(s, e + 1)

RECURSIVE BitAnd(_, _)
BitAnd(a, b) ==
    IF a = 0 \/ b = 0 THEN 0
    ELSE (a % 2) * (b % 2) + 2 * BitAnd(a \div 2, b \div 2)

(* &TypeAnnotation{Endian: "little", Mode: "copy", Size: 0} *)
DefaultAnnotation ==
    [Size |-> 0, Endian |-> <<"l", "i", "t", "t", "l", "e">>, Mode |-> <<"c", "o", "p", "y">>,
     Align |-> 0, Allocator |-> <<>>]

(* the returned pair of a TypeAnnotation pointer and an error *)
AnnoRes(a, e) == [a |-> a, err |-> e]

(* the loop of parseLayoutParams over the pairs, from pair i on *)
RECURSIVE paramLoop(_, _, _)
paramLoop(pairs, i, a) ==
    IF i > Len(pairs) THEN AnnoRes(a, NoErr)
    ELSE LET key == pairs[i].key
             value == pairs[i].value
         IN  IF key = <<"s", "i", "z", "e">>
             THEN LET size == Atoi(value)
                  IN  IF size.err # NoErr THEN AnnoRes("nil", "invalid size")
                      ELSE IF size.val <= 0 THEN AnnoRes("nil", "size must be positive")
                      ELSE paramLoop(pairs, i + 1, [a EXCEPT !.Size = size.val])
             ELSE IF key = <<"e", "n", "d", "i", "a", "n">>
             THEN IF value # <<"l", "i", "t", "t", "l", "e">> /\ value # <<"b", "i", "g">>
                  THEN AnnoRes("nil", "endian must be 'little' or 'big'")
                  ELSE paramLoop(pairs, i + 1, [a EXCEPT !.Endian = value])
             ELSE IF key = <<"m", "o", "d", "e">>
             THEN IF value # <<"c", "o", "p", "y">> /\ value # <<"z", "e", "r", "o", "c", "o", "p", "y">>
                  THEN AnnoRes("nil", "mode must be 'copy' or 'zerocopy'")
                  ELSE paramLoop(pairs, i + 1, [a EXCEPT !.Mode = value])
             ELSE IF key = <<"a", "l", "i", "g", "n">>
             THEN LET align == Atoi(value)
                  IN  IF align.err # NoErr THEN AnnoRes("nil", "invalid align value")
                      ELSE IF align.val <= 0 \/ BitAnd(align.val, align.val - 1) # 0
                      THEN AnnoRes("nil", "align must be a power of 2")
                      ELSE paramLoop(pairs, i + 1, [a EXCEPT !.Align = align.val])
             ELSE IF key = <<"a", "l", "l", "o", "c", "a", "t", "o", "r">>
             THEN paramLoop(pairs, i + 1, [a EXCEPT !.Allocator = value])
             ELSE AnnoRes("nil", "unknown parameter")

parseLayoutParams(params) ==
    LET pairs == FindAllPairs(params, 1)
    IN  IF Len(pairs) = 0 THEN AnnoRes(DefaultAnnotation, NoErr)
        ELSE paramLoop(pairs, 1, DefaultAnnotation)

AtLayout == <<"@", "l", "a", "y", "o", "u", "t">>

(* the number of characters of class \s at the start of s *)
RECURSIVE LeadingSpaces(_)
LeadingSpaces(s) ==
    IF s # <<>> /\ IsSpace(Head(s)) THEN 1 + LeadingSpaces(Tail(s)) ELSE 0

(* re.FindStringSubmatch(comment) for @layout(?:\s+(.+))?: the leftmost   *)
(* @layout, and in matches[1] what follows its white space, if anything   *)
ParseAnnotation(c) ==
    IF ~\E i \in 1..Len(c) : HasPrefix(SubSeq(c, i, Len(c)), AtLayout)
    THEN AnnoRes("nil", "no @layout annotation found")
    ELSE LET i    == CHOOSE k \in 1..Len(c) :
                        /\ HasPrefix(SubSeq(c, k, Len(c)), AtLayout)
                        /\ \A j \in 1..(k - 1) : ~HasPrefix(SubSeq(c, j, Len(c)), AtLayout)
             rest == SubSeq(c, i + Len(AtLayout), Len(c))
             ws   == LeadingSpaces(rest)
             params == IF ws = 0 THEN <<>>
                       ELSE IF ws < Len(rest) THEN SubSeq(rest, ws + 1, Len(rest))
                       ELSE IF ws >= 2 THEN <<rest[ws]>>
                       ELSE <<>>
         IN  IF params = <<>> THEN AnnoRes(DefaultAnnotation, NoErr)
             ELSE parseLayoutParams(params)

----------------------------------------------------------------------------
(* The parser called on struct tags and on comment lines *)

(* the largest number of comma-separated parts of a tag *)
MaxParts == 3

(* the largest number of key=value parameters of an annotation *)
MaxParams == 2

RECURSIVE Join(_, _)
Join(parts, sep) ==
    IF parts = <<>> THEN <<>>
    ELSE IF Len(parts) = 1 THEN parts[1]
    ELSE parts[1] \o sep \o Join(Tail(parts), sep)

(* the parts tags are put together from *)
TagParts ==
    { <<"@", "4">>,
      <<"@", "1", "2">>,
      <<"@">>,
      <<"@", "x">>,
      <<"s", "t", "a", "r", "t", "-", "e", "n", "d">>,
      <<"e", "n", "d", "-", "s", "t", "a", "r", "t">>,
      <<"u", "p">>,
      <<"c", "o", "u", "n", "t", "=", "N">>,
      <<"c", "o", "u", "n", "t", "=">>,
      <<>> }

(* tags of further forms: signed offsets, a dotted count, indirect slices *)
MoreTags ==
    { <<"@", "-", "2">>,
      <<"@", "+", "4">>,
      <<"s", "t", "a", "r", "t", "-", "e", "n", "d", ",", "c", "o", "u", "n", "t", "=", "H", ".", "N">>,
      <<"f", "r", "o", "m", "=", "E", ",", "o", "f", "f", "s", "e", "t", "=", "O", ",", "s", "i", "z", "e", "=", "S", ",", "r", "e", "g", "i", "o", "n", "=", "D">>,
      <<"f", "r", "o", "m", "=", "E", ",", "o", "f", "f", "s", "e", "t", "=", "O", ",", "s", "i", "z", "e", "=", "S">>,
      <<"f", "r", "o", "m", "=", "E", ",", "o", "f", "f", "s", "e", "t", "=", "O", ",", "s", "i", "z", "e", "=", "S", ",", "a", "r", "e", "a", "=", "D">>,
      <<"f", "r", "o", "m", "=", "E", ",", "o", "f", "f", "s", "e", "t">>,
      <<"f", "r", "o", "m", "=", ",", "o", "f", "f", "s", "e", "t", "=", "O", ",", "s", "i", "z", "e", "=", "S", ",", "r", "e", "g", "i", "o", "n", "=", "D">> }

Tags ==
    { Join(parts, <<",">>) : parts \in UNION { [1..n -> TagParts] : n \in 0..MaxParts } }
      \cup MoreTags

(* the parameters annotations are put together from *)
AnnotationParams ==
    { <<"s", "i", "z", "e", "=", "1", "6">>,
      <<"s", "i", "z", "e", "=", "0">>,
      <<"s", "i", "z", "e", "=", "-", "4">>,
      <<"s", "i", "z", "e", "=", "x">>,
      <<"e", "n", "d", "i", "a", "n", "=", "b", "i", "g">>,
      <<"e", "n", "d", "i", "a", "n", "=", "m", "i", "d">>,
      <<"m", "o", "d", "e", "=", "z", "e", "r", "o", "c", "o", "p", "y">>,
      <<"m", "o", "d", "e", "=", "f", "a", "s", "t">>,
      <<"a", "l", "i", "g", "n", "=", "8">>,
      <<"a", "l", "i", "g", "n", "=", "6">>,
      <<"a", "l", "l", "o", "c", "a", "t", "o", "r", "=", "A">>,
      <<"c", "o", "l", "o", "r", "=", "r", "e", "d">> }

(* comment lines of further forms *)
MoreComments ==
    { <<"l", "a", "y", "o", "u", "t", " ", "s", "i", "z", "e", "=", "1", "6">>,
      <<"/", "/", " ", "@", "l", "a", "y", "o", "u", "t">>,
      <<"@", "l", "a", "y", "o", "u", "t", " ", " ">>,
      <<"@", "l", "a", "y", "o", "u", "t", "s", "i", "z", "e", "=", "1", "6">>,
      <<"@", "l", "a", "y", "o", "u", "t", " ", "s", "i", "z", "e", "=", "1", "6", " ", "m", "o", "d", "e", "=", "z", "e", "r", "o", "c", "o", "p", "y", " ", "a", "l", "i", "g", "n", "=", "8", " ", "a", "l", "l", "o", "c", "a", "t", "o", "r", "=", "A">>,
      <<"@", "l", "a", "y", "o", "u", "t", " ", "s", "i", "z", "e", "=", "1", "6", ",", " ", "e", "n", "d", "i", "a", "n", "=", "b", "i", "g">> }

Comments ==
    { AtLayout \o <<" ">> \o Join(params, <<" ">>) :
         params \in UNION { [1..n -> AnnotationParams] : n \in 0..MaxParams } }
      \cup MoreComments

ParseInit ==
    /\ layout = NoLayout
    /\ registry = Registry0
    /\ Regions = <<>>
    /\ Errors = <<>>
    /\ err = NoErr
    /\ call = NoCall
    /\ CodegenIdle
    /\ parsed = <<>>
    /\ anno = <<>>
    /\ \/ pc = "parseTag" /\ tag \in Tags /\ comment = <<>>
       \/ pc = "parseAnnotation" /\ comment \in Comments /\ tag = <<>>

ParseTagCall ==
    /\ pc = "parseTag"
    /\ parsed' = ParseTag(tag)
    /\ pc' = "done"
    /\ UNCHANGED <<layout, registry, Regions, Errors, err, call, tag, comment, anno,
                   codegenVars>>

ParseAnnotationCall ==
    /\ pc = "parseAnnotation"
    /\ anno' = ParseAnnotation(comment)
    /\ pc' = "done"
    /\ UNCHANGED <<layout, registry, Regions, Errors, err, call, tag, parsed, comment,
                   codegenVars>>

ParseNext == ParseTagCall \/ ParseAnnotationCall

ParseSpec == ParseInit /\ [][ParseNext]_vars

----------------------------------------------------------------------------
(* The forms of a struct tag *)

ParsedTag == pc = "done" /\ parsed # <<>>

TagFailed == parsed.err # NoErr /\ parsed.f = "nil"

Commas(s) == { i \in 1..Len(s) : s[i] = "," }

PartCount(s) == Cardinality(Commas(s)) + 1

(* the position of the k-th comma of s *)
CommaAt(s, k) ==
    CHOOSE i \in Commas(s) : Cardinality({ j \in Commas(s) : j < i }) = k - 1

(* the k-th of the parts of s that commas separate *)
PartAt(s, k) ==
    LET lo == IF k = 1 THEN 0 ELSE CommaAt(s, k - 1)
        hi == IF k = PartCount(s) THEN Len(s) + 1 ELSE CommaAt(s, k)
    IN  SubSeq(s, lo + 1, hi - 1)

Pow10(n) == IF n = 0 THEN 1 ELSE IF n = 1 THEN 10 ELSE IF n = 2 THEN 100 ELSE 1000

(* s is a decimal number with an optional sign *)
IsNumber(s) ==
    LET body == IF s # <<>> /\ s[1] \in {"+", "-"} THEN Tail(s) ELSE s
    IN  /\ body # <<>>
        /\ Len(body) <= 4
        /\ \A i \in 1..Len(body) : body[i] \in {"0", "1", "2", "3", "4", "5", "6", "7", "8", "9"}

RECURSIVE SumOver(_, _)
SumOver(f, S) ==
    IF S = {} THEN 0 ELSE LET x == CHOOSE y \in S : TRUE IN f[x] + SumOver(f, S \ {x})

(* the value of the decimal number s, digit by place value *)
NumberValue(s) ==
    LET neg  == s[1] = "-"
        body == IF s[1] \in {"+", "-"} THEN Tail(s) ELSE s
        place == [i \in 1..Len(body) |->
                    Pow10(Len(body) - i) *
                      (CASE body[i] = "0" -> 0 [] body[i] = "1" -> 1 [] body[i] = "2" -> 2
                         [] body[i] = "3" -> 3 [] body[i] = "4" -> 4 [] body[i] = "5" -> 5
                         [] body[i] = "6" -> 6 [] body[i] = "7" -> 7 [] body[i] = "8" -> 8
                         [] body[i] = "9" -> 9)]
        total == SumOver(place, 1..Len(body))
    IN  IF neg THEN 0 - total ELSE total

IsOffsetPart(x) == x # <<>> /\ x[1] = "@" /\ IsNumber(Tail(x))

OffsetOf(x) == NumberValue(Tail(x))

IsDirectionPart(x) == x = <<"s", "t", "a", "r", "t", "-", "e", "n", "d">> \/ x = <<"e", "n", "d", "-", "s", "t", "a", "r", "t">>

DirectionOf(x) == IF x = <<"s", "t", "a", "r", "t", "-", "e", "n", "d">> THEN StartEnd ELSE EndStart

IsCountPart(x) == Len(x) > 6 /\ SubSeq(x, 1, 6) = <<"c", "o", "u", "n", "t", "=">>

CountOf(x) == SubSeq(x, 7, Len(x))

IsIndirectTag(s) == Len(s) >= 5 /\ SubSeq(s, 1, 5) = <<"f", "r", "o", "m", "=">>

(* '@N' alone *)
FixedForm(s) == PartCount(s) = 1 /\ IsOffsetPart(s)

(* '@N,dir' or '@N,dir,count=F' *)
AnchoredForm(s) ==
    /\ PartCount(s) \in {2, 3}
    /\ IsOffsetPart(PartAt(s, 1))
    /\ IsDirectionPart(PartAt(s, 2))
    /\ PartCount(s) = 3 => IsCountPart(PartAt(s, 3))

(* 'dir' or 'dir,count=F' *)
DirectionalForm(s) ==
    /\ PartCount(s) \in {1, 2}
    /\ IsDirectionPart(PartAt(s, 1))
    /\ PartCount(s) = 2 => IsCountPart(PartAt(s, 2))

(* the tags the claim names as errors: empty, an offset that is missing   *)
(* or no number, an unknown direction, a second '@' part, an empty count= *)
(* and an unknown parameter                                               *)
MalformedTag(s) ==
    \/ s = <<>>
    \/ /\ ~IsIndirectTag(s)
       /\ LET first == PartAt(s, 1)
              dirAt == IF first # <<>> /\ first[1] = "@" THEN 2 ELSE 1
          IN  \/ first # <<>> /\ first[1] = "@" /\ ~IsNumber(Tail(first))
              \/ dirAt <= PartCount(s) /\ ~IsDirectionPart(PartAt(s, dirAt))
              \/ \E k \in 2..PartCount(s) :
                    PartAt(s, k) # <<>> /\ PartAt(s, k)[1] = "@"
              \/ \E k \in (dirAt + 1)..PartCount(s) :
                    \/ PartAt(s, k) = <<"c", "o", "u", "n", "t", "=">>
                    \/ ~IsCountPart(PartAt(s, k))

(* C24: ParseTag gives Direction Fixed, Offset N and StartAt -1 for '@N'  *)
(* alone; Offset -1, Direction dir, StartAt N and CountField F for        *)
(* '@N,dir[,count=F]'; Offset -1, StartAt -1, the direction and the count *)
(* for 'dir[,count=F]'; and an error for an empty tag, a missing or       *)
(* non-numeric offset, an unknown direction, a second '@' part, an empty  *)
(* count= and an unknown parameter                                        *)
C24_TagForms ==
    ParsedTag =>
        /\ FixedForm(tag) =>
              /\ parsed.err = NoErr
              /\ parsed.f.Direction = Fixed
              /\ parsed.f.Offset = OffsetOf(tag)
              /\ parsed.f.StartAt = -1
        /\ AnchoredForm(tag) =>
              /\ parsed.err = NoErr
              /\ parsed.f.Offset = -1
              /\ parsed.f.Direction = DirectionOf(PartAt(tag, 2))
              /\ parsed.f.StartAt = OffsetOf(PartAt(tag, 1))
              /\ parsed.f.CountField =
                    IF PartCount(tag) = 3 THEN CountOf(PartAt(tag, 3)) ELSE <<>>
        /\ DirectionalForm(tag) =>
              /\ parsed.err = NoErr
              /\ parsed.f.Offset = -1
              /\ parsed.f.StartAt = -1
              /\ parsed.f.Direction = DirectionOf(PartAt(tag, 1))
              /\ parsed.f.CountField =
                    IF PartCount(tag) = 2 THEN CountOf(PartAt(tag, 2)) ELSE <<>>
        /\ MalformedTag(tag) => TagFailed

(* '@12,end-start,count=N' parsed: an anchor of two digits with a count *)
C24_Witness ==
    /\ ParsedTag
    /\ tag = <<"@", "1", "2", ",", "e", "n", "d", "-", "s", "t", "a", "r", "t", ",", "c", "o", "u", "n", "t", "=", "N">>
    /\ parsed.err = NoErr
    /\ parsed.f.StartAt = 12
    /\ parsed.f.CountField = <<"N">>

----------------------------------------------------------------------------
(* The annotations ParseAnnotation returns *)

ParsedAnnotation == pc = "done" /\ anno # <<>> /\ anno.err = NoErr

(* a word of the comment line starts with the text s *)
Mentions(c, s) ==
    LET words == Split(c, " ") IN \E i \in 1..Len(words) : HasPrefix(words[i], s)

PowerOfTwo(n) == n \in {1, 2, 4, 8, 16, 32, 64, 128, 256, 512, 1024, 2048, 4096}

(* C25: a returned TypeAnnotation has Size >= 0, and 0 only when size= is  *)
(* absent; Endian little or big; Mode copy or zerocopy; Align 0 or a power *)
(* of two; and Align > 0 or a non-empty Allocator only with Mode zerocopy  *)
C25_AnnotationInvariant ==
    ParsedAnnotation =>
        /\ anno.a.Size >= 0
        /\ anno.a.Size = 0 => ~Mentions(comment, <<"s", "i", "z", "e", "=">>)
        /\ anno.a.Endian \in { <<"l", "i", "t", "t", "l", "e">>, <<"b", "i", "g">> }
        /\ anno.a.Mode \in { <<"c", "o", "p", "y">>, <<"z", "e", "r", "o", "c", "o", "p", "y">> }
        /\ anno.a.Align = 0 \/ PowerOfTwo(anno.a.Align)
        /\ (anno.a.Align > 0 \/ anno.a.Allocator # <<>>) =>
              anno.a.Mode = <<"z", "e", "r", "o", "c", "o", "p", "y">>

----------------------------------------------------------------------------
(* Layouts with indirect slices: a count, a struct slice of metadata, a   *)
(* byte data region, and [][]byte fields addressed through the metadata   *)

(* the FieldLayout parseIndirectSlice returns: Offset -1, StartAt -1, the *)
(* four names, and Direction left at its zero value                       *)
Indirect(from, offsetField, sizeField, region) ==
    [GoType |-> SliceOf(Bytes),
     Layout |-> [Offset |-> -1, Direction |-> Fixed, StartAt |-> -1,
                 CountField |-> EmptyString, From |-> from,
                 OffsetField |-> offsetField, SizeField |-> sizeField,
                 Region |-> region]]

(* the fields of a leaf page: F1 the count, F2 the metadata, F3 the data *)
LeafDecls(countType, anchor, dataAnchor) ==
    << FixedAt(countType, 0),
       Dynamic(Elems, StartEnd, anchor, <<"F1">>),
       Dynamic(Bytes, EndStart, dataAnchor, EmptyString) >>

IndirectDecls ==
    { <<>>,
      << Indirect("F2", "KeyOffset", "KeySize", "F3") >>,
      << Indirect("F2", "KeyOffset", "KeySize", "F3"),
         Indirect("F2", "ValueOffset", "ValueSize", "F3") >> }

IndirectLayouts ==
    { [Name |-> "LeafPage", Anno |-> [Size |-> size],
       Fields |-> Named(LeafDecls(countType, anchor, dataAnchor) \o ind)] :
         size \in {32, 64},
         countType \in {T("uint8"), T("uint16"), T("uint32")},
         anchor \in {-1, 4, 8, 24},
         dataAnchor \in {-1, 32},
         ind \in IndirectDecls }

IndirectInit ==
    /\ layout \in IndirectLayouts
    /\ registry = Registry0
    /\ Regions = <<>>
    /\ Errors = <<>>
    /\ err = NoErr
    /\ pc = "build"
    /\ call = NoCall
    /\ ParserIdle
    /\ CodegenIdle

IndirectSpec == IndirectInit /\ [][Next]_vars

IsIndirect(f) == f.GoType = SliceOf(Bytes) /\ "From" \in DOMAIN f.Layout

(* the layout without its indirect-slice fields *)
WithoutIndirect(lay) ==
    [lay EXCEPT !.Fields = SelectSeq(lay.Fields, LAMBDA f : ~IsIndirect(f))]

HasIndirect(lay) == \E i \in 1..Len(lay.Fields) : IsIndirect(lay.Fields[i])

(* the rest of the layout is accepted by Analyze *)
OtherwiseValid(lay) ==
    LET a == Analyze(WithoutIndirect(lay), registry)
    IN  a.err = NoErr /\ Len(a.Errors) = 0

(* C28: a layout with indirect-slice fields next to a metadata struct     *)
(* slice and a byte data region that Analyze accepts is accepted by       *)
(* Analyze, and no indirect field has a build error                       *)
C28_IndirectAccepted ==
    (Finished /\ HasIndirect(layout) /\ OtherwiseValid(layout)) =>
        /\ err = NoErr
        /\ IsValid
        /\ \A i \in 1..Len(layout.Fields) :
              IsIndirect(layout.Fields[i]) =>
                 ~\E k \in 1..Len(Errors) : Errors[k].a = layout.Fields[i].Name

----------------------------------------------------------------------------
(* The constructor generateNewFunction emits for a zerocopy layout *)

(* the largest buffer size of a constructed layout *)
MaxBufferSize == 4

(* the largest address at which an allocated backing buffer starts *)
MaxAddr == 15

(* the values of align the annotation parser lets through *)
Aligns == {0, 1, 2, 4, 8}

(* a &^ m: the bits of a that are not set in m *)
RECURSIVE BitClear(_, _)
BitClear(a, m) ==
    IF a = 0 THEN 0
    ELSE (a % 2) * (1 - (m % 2)) + 2 * BitClear(a \div 2, m \div 2)

(* offset := int(((addr + (align-1)) &^ (align-1)) - addr) taken as the   *)
(* distance of addr from the multiple of align below it                   *)
alignedOffset_Remainder(addr, align) == addr % align

(* offset := int(((addr + (align-1)) &^ (align-1)) - addr) *)
alignedOffset(addr, align) == BitClear(addr + (align - 1), align - 1) - addr

(* requiredSize := g.analyzed.BufferSize + g.align - 1 *)
requiredSize(bufferSize, align) == bufferSize + align - 1

(* a slice of the backing array: where it starts in it, its len and cap *)
SliceAt(off, len, capacity) == [off |-> off, len |-> len, cap |-> capacity]

(* the fields of the constructed layouts: none, a count and a start-end   *)
(* byte slice, or an end-start byte slice on its own                      *)
NewDecls ==
    { <<>>,
      << FixedAt(T("uint8"), 0), Dynamic(Bytes, StartEnd, -1, EmptyString) >>,
      << Dynamic(Bytes, EndStart, -1, EmptyString) >> }

NewLayouts ==
    { [Name |-> "Page",
       Anno |-> [Size |-> size, Mode |-> "zerocopy", Align |-> align,
                 Allocator |-> allocator],
       Fields |-> Named(decls)] :
         size \in 1..MaxBufferSize, align \in Aligns,
         allocator \in {"", "Alloc"}, decls \in NewDecls }

(* the generator holds the analysed layout; no object exists yet *)
NewInit ==
    /\ layout \in NewLayouts
    /\ registry = Registry0
    /\ Analyze(layout, registry).err = NoErr
    /\ Regions = Analyze(layout, registry).Regions
    /\ Errors = Analyze(layout, registry).Errors
    /\ err = NoErr
    /\ pc = "new"
    /\ call = NoCall
    /\ ParserIdle
    /\ CodegenIdle

(* the statements "p.Field = p.buf[start:start:boundary]" for the         *)
(* start-end byte slices of the analysed layout, on the window win        *)
initDynamicSlices(win) ==
    [n \in { Regions[i].Field.Name : i \in
                { k \in 1..Len(Regions) :
                     /\ Regions[k].Kind = DynamicRegion
                     /\ Regions[k].Field.GoType = Bytes
                     /\ Regions[k].Direction = StartEnd } } |->
        LET r == Regions[CHOOSE k \in 1..Len(Regions) : Regions[k].Field.Name = n]
        IN  SliceAt(win.off + r.Start, 0, r.Boundary - r.Start)]

(* New<TypeName>(): the backing buffer is what the allocator returned, or *)
(* what make returned, at any address; then the length check, the aligned *)
(* window and the dynamic slices                                          *)
NewObject ==
    /\ pc = "new"
    /\ \E addr \in 0..MaxAddr, returned \in 0..(MaxBufferSize + Max(Aligns)) :
         LET size   == layout.Anno.Size
             align  == layout.Anno.Align
             need   == IF align > 0 THEN requiredSize(size, align) ELSE size
             length == IF layout.Anno.Allocator # "" THEN returned ELSE need
             backing == [addr |-> addr, len |-> length]
             offset == IF align > 0 THEN alignedOffset(addr, align) ELSE 0
             inside == 0 <= offset /\ offset + size <= length
             win    == SliceAt(offset, size, length - offset)
         IN  IF (layout.Anno.Allocator # "" /\ length < need) \/ length = 0 \/ ~inside
             THEN /\ page' = [backing |-> backing, buf |-> "nil", fields |-> <<>>]
                  /\ pc' = "panic"
             ELSE /\ page' = [backing |-> backing, buf |-> win,
                              fields |-> initDynamicSlices(win)]
                  /\ pc' = "done"
    /\ UNCHANGED <<layout, registry, Regions, Errors, err, call, parserVars,
                   buf, decoded, writes>>

NewNext == NewObject

NewSpec == NewInit /\ [][NewNext]_vars

----------------------------------------------------------------------------
(* The buffer of a constructed object *)

Constructed == pc \in {"done", "panic"} /\ page # <<>>

(* the length the claim requires of the backing buffer *)
RequiredLength ==
    IF layout.Anno.Align > 0 THEN layout.Anno.Size + layout.Anno.Align - 1
    ELSE layout.Anno.Size

(* C23: the constructor panics exactly when the backing buffer is shorter *)
(* than bufferSize + align - 1 (bufferSize when align is 0); otherwise    *)
(* the window buf starts at a multiple of align, has length bufferSize    *)
(* and lies inside backing, at an offset between 0 and align - 1          *)
C23_AlignedWindow ==
    Constructed =>
        /\ pc = "panic" <=> page.backing.len < RequiredLength
        /\ pc = "done" =>
              /\ page.buf.len = layout.Anno.Size
              /\ page.buf.off >= 0
              /\ page.buf.off + page.buf.len <= page.backing.len
              /\ layout.Anno.Align > 0 =>
                    /\ (page.backing.addr + page.buf.off) % layout.Anno.Align = 0
                    /\ page.buf.off <= layout.Anno.Align - 1
              /\ layout.Anno.Align = 0 => page.buf.off = 0

(* a buffer of exactly bufferSize + align - 1 bytes at an odd address is  *)
(* accepted and the window starts after the first bytes of it             *)
C23_Witness ==
    /\ pc = "done" /\ page # <<>>
    /\ layout.Anno.Align = 4
    /\ layout.Anno.Allocator # ""
    /\ page.backing.len = layout.Anno.Size + 3
    /\ page.backing.addr % 4 = 1
    /\ page.buf.off = 3

----------------------------------------------------------------------------
(* The copy-mode MarshalLayout and UnmarshalLayout the generator emits,   *)
(* run on a struct value.  A struct value maps each field name to a       *)
(* number (a fixed field) or a sequence (a slice); an element of a struct *)
(* slice is the sequence of the bytes its own MarshalLayout returns.      *)

(* the size of the buffer of the marshalled layouts *)
CopySize == 12

(* the largest length of a slice, and the largest value of a fixed field *)
MaxLen == 3

(* make([]byte, BufferSize) *)
zeroBuffer(size) == [i \in 0..(size - 1) |-> 0]

Pow256(n) == IF n = 0 THEN 1 ELSE 256

(* binary.LittleEndian.PutUint16, and buf[i] = v for one byte *)
putLittleEndian(v, n) == [i \in 1..n |-> (v \div Pow256(i - 1)) % 256]

(* binary.LittleEndian.Uint16, and v = buf[i] for one byte *)
getLittleEndian(bytes) ==
    IF Len(bytes) = 1 THEN bytes[1] ELSE bytes[1] + 256 * bytes[2]

(* the state of a running MarshalLayout *)
MarshalRes(b, w, e) == [buf |-> b, writes |-> w, err |-> e]

(* copy(buf[off:off+len(bytes)], bytes) for the field name; an index      *)
(* outside the buffer panics                                              *)
writeAt(m, name, off, bytes) ==
    IF \E i \in 1..Len(bytes) : (off + i - 1) \notin DOMAIN m.buf
    THEN MarshalRes(m.buf, m.writes, "panic")
    ELSE MarshalRes(
           [o \in DOMAIN m.buf |->
               IF o >= off /\ o < off + Len(bytes) THEN bytes[o - off + 1] ELSE m.buf[o]],
           m.writes \cup { [f |-> name, off |-> off + i - 1] : i \in 1..Len(bytes) },
           NoErr)

(* the bytes of the elements of a slice: a byte is its own one byte *)
elementBytes(region, v) ==
    IF region.ElementType = T("byte") THEN [i \in 1..Len(v) |-> <<v[i]>>] ELSE v

(* len(p.Field) != int(p.CountField) *)
lengthMismatch(region, v) ==
    /\ region.Field.Layout.CountField # EmptyString
    /\ Len(v[region.Field.Name]) # v[region.Field.Layout.CountField[1]]

(* for i := range p.Field: the collision test, the write, offset += size *)
RECURSIVE forwardLoop(_, _, _, _, _)
forwardLoop(m, region, elems, i, offset) ==
    IF i > Len(elems) \/ m.err # NoErr THEN m
    ELSE IF offset + region.ElementSize > region.Boundary
    THEN MarshalRes(m.buf, m.writes, "collision")
    ELSE forwardLoop(writeAt(m, region.Field.Name, offset, elems[i]),
                     region, elems, i + 1, offset + region.ElementSize)

(* for i := len(p.Field) - 1; i >= 0; i--: offset -= size, the collision *)
(* test, the write                                                       *)
RECURSIVE backwardLoop(_, _, _, _, _)
backwardLoop(m, region, elems, i, offset) ==
    IF i < 1 \/ m.err # NoErr THEN m
    ELSE IF offset - region.ElementSize < region.Boundary
    THEN MarshalRes(m.buf, m.writes, "collision")
    ELSE backwardLoop(writeAt(m, region.Field.Name, offset - region.ElementSize, elems[i]),
                      region, elems, i - 1, offset - region.ElementSize)

(* the code generateByteMarshal and generateStructMarshal emit *)
generateDynamicMarshal(m, region, v) ==
    LET elems == elementBytes(region, v[region.Field.Name])
    IN  IF lengthMismatch(region, v) THEN MarshalRes(m.buf, m.writes, "length mismatch")
        ELSE IF region.Direction = StartEnd
        THEN forwardLoop(m, region, elems, 1, region.Start)
        ELSE backwardLoop(m, region, elems, Len(elems), region.Start)

(* the code generateFixedOp emits for "marshal": uint8 and uint16 *)
generateFixedMarshal(m, region, v) ==
    writeAt(m, region.Field.Name, region.Start,
            putLittleEndian(v[region.Field.Name], region.Boundary - region.Start))

(* the code generateCopyMarshal emits: the regions in list order, from    *)
(* region i on, with a return at the first error                          *)
RECURSIVE generateCopyMarshal(_, _, _, _)
generateCopyMarshal(m, regions, i, v) ==
    IF i > Len(regions) \/ m.err # NoErr THEN m
    ELSE generateCopyMarshal(
           IF regions[i].Kind = FixedRegion
           THEN generateFixedMarshal(m, regions[i], v)
           ELSE generateDynamicMarshal(m, regions[i], v),
           regions, i + 1, v)

(* the state of a running UnmarshalLayout: the struct value filled so far *)
UnmarshalRes(v, e) == [v |-> v, err |-> e]

(* len(buf) *)
bufLen(b) == Cardinality(DOMAIN b)

(* buf[lo:hi] as a sequence; the caller has tested the bounds *)
sliceOf(b, lo, hi) == [i \in 1..(hi - lo) |-> b[lo + i - 1]]

(* the code generateByteUnmarshal emits *)
generateByteUnmarshal(d, b, region) ==
    LET name  == region.Field.Name
        cf    == region.Field.Layout.CountField
        n     == IF cf # EmptyString THEN d.v[cf[1]]
                 ELSE IF region.Direction = StartEnd
                 THEN region.Boundary - region.Start
                 ELSE region.Start - region.Boundary
        lo    == IF region.Direction = StartEnd THEN region.Start
                 ELSE IF cf # EmptyString THEN region.Start - n ELSE region.Boundary
        hi    == IF region.Direction = StartEnd
                 THEN (IF cf # EmptyString THEN region.Start + n ELSE region.Boundary)
                 ELSE region.Start
    IN  IF n < 0 \/ lo < 0 \/ hi > bufLen(b) \/ lo > hi
        THEN UnmarshalRes(d.v, "panic")
        ELSE UnmarshalRes([d.v EXCEPT ![name] = sliceOf(b, lo, hi)], NoErr)

(* the element loop of generateStructUnmarshal: element i is read where   *)
(* the offset stands, and the offset moves by one element                 *)
RECURSIVE structLoop(_, _, _, _, _, _)
structLoop(d, b, region, n, i, offset) ==
    IF i > n \/ d.err # NoErr THEN d
    ELSE LET lo == IF region.Direction = StartEnd THEN offset
                   ELSE offset - region.ElementSize
             hi == lo + region.ElementSize
         IN  IF lo < 0 \/ hi > bufLen(b) THEN UnmarshalRes(d.v, "panic")
             ELSE structLoop(
                    UnmarshalRes([d.v EXCEPT ![region.Field.Name] =
                                    Append(d.v[region.Field.Name], sliceOf(b, lo, hi))],
                                 NoErr),
                    b, region, n, i + 1,
                    IF region.Direction = StartEnd THEN offset + region.ElementSize
                    ELSE offset - region.ElementSize)

(* the code generateStructUnmarshal emits *)
generateStructUnmarshal(d, b, region) ==
    LET cf == region.Field.Layout.CountField
        n  == IF cf # EmptyString THEN d.v[cf[1]]
              ELSE IF region.Direction = EndStart
              THEN (region.Start - region.Boundary) \div region.ElementSize
              ELSE (region.Boundary - region.Start) \div region.ElementSize
    IN  IF n < 0 THEN UnmarshalRes(d.v, "panic")
        ELSE structLoop(UnmarshalRes([d.v EXCEPT ![region.Field.Name] = <<>>], NoErr),
                        b, region, n, 1, region.Start)

(* the code generateFixedOp emits for "unmarshal": uint8 and uint16 *)
generateFixedUnmarshal(d, b, region) ==
    IF region.Start < 0 \/ region.Boundary > bufLen(b) THEN UnmarshalRes(d.v, "panic")
    ELSE UnmarshalRes([d.v EXCEPT ![region.Field.Name] =
                          getLittleEndian(sliceOf(b, region.Start, region.Boundary))],
                      NoErr)

(* the code generateCopyUnmarshal emits after the length test: the        *)
(* regions in list order, from region i on                                *)
RECURSIVE generateCopyUnmarshal(_, _, _, _)
generateCopyUnmarshal(d, b, regions, i) ==
    IF i > Len(regions) \/ d.err # NoErr THEN d
    ELSE generateCopyUnmarshal(
           IF regions[i].Kind = FixedRegion
           THEN generateFixedUnmarshal(d, b, regions[i])
           ELSE IF regions[i].ElementType = T("byte")
           THEN generateByteUnmarshal(d, b, regions[i])
           ELSE generateStructUnmarshal(d, b, regions[i]),
           b, regions, i + 1)

(* the field lists of the marshalled layouts: F1 (and F2) hold counts *)
CopyDecls ==
    { << FixedAt(T("uint8"), 0), Dynamic(Bytes, StartEnd, -1, <<"F1">>) >>,
      << FixedAt(T("uint8"), CopySize - 1), Dynamic(Bytes, StartEnd, -1, <<"F1">>) >>,
      << FixedAt(T("uint8"), 0), Dynamic(Bytes, EndStart, -1, <<"F1">>) >>,
      << FixedAt(T("uint8"), 0), FixedAt(T("uint8"), 1),
         Dynamic(Bytes, StartEnd, CopySize - 4, <<"F1">>),
         Dynamic(Bytes, EndStart, -1, <<"F2">>) >>,
      << FixedAt(T("uint8"), 0), Dynamic(Elems, EndStart, -1, <<"F1">>) >>,
      << FixedAt(T("uint8"), 0), Dynamic(Elems, StartEnd, 4, <<"F1">>) >>,
      << FixedAt(T("uint16"), 0), Dynamic(Bytes, StartEnd, 2, <<"F1">>) >>,
      << FixedAt(T("uint8"), 0), Dynamic(Bytes, StartEnd, 1, EmptyString),
         FixedAt(T("uint8"), CopySize - 1) >> }

CopyLayouts ==
    { [Name |-> "Page", Anno |-> [Size |-> CopySize], Fields |-> Named(decls)] :
         decls \in CopyDecls }

(* the value of field k of a struct value: n for a fixed field, and for a *)
(* slice n elements that differ from each other and from other fields     *)
fieldValue(lay, k, n) ==
    LET f == lay.Fields[k]
    IN  IF f.Layout.Direction = Fixed THEN n
        ELSE IF f.GoType = Bytes THEN [i \in 1..n |-> 16 * k + i]
        ELSE [i \in 1..n |-> [j \in 1..4 |-> 16 * k + i]]

(* the struct value a caller finds after "&Page{}" *)
zeroValue(lay) ==
    [name \in { lay.Fields[k].Name : k \in 1..Len(lay.Fields) } |->
        LET k == CHOOSE j \in 1..Len(lay.Fields) : lay.Fields[j].Name = name
        IN  fieldValue(lay, k, 0)]

(* the generator holds an accepted layout; the caller holds a struct value *)
CopyInit ==
    /\ layout \in CopyLayouts
    /\ registry = Registry0
    /\ Analyze(layout, registry).err = NoErr
    /\ Len(Analyze(layout, registry).Errors) = 0
    /\ Regions = Analyze(layout, registry).Regions
    /\ Errors = <<>>
    /\ err = NoErr
    /\ pc = "marshal"
    /\ call = NoCall
    /\ ParserIdle
    /\ \E n \in [1..Len(layout.Fields) -> 0..MaxLen] :
          page = [name \in { layout.Fields[k].Name : k \in 1..Len(layout.Fields) } |->
                     LET k == CHOOSE j \in 1..Len(layout.Fields) :
                                 layout.Fields[j].Name = name
                     IN  fieldValue(layout, k, n[k])]
    /\ buf = <<>>
    /\ decoded = <<>>
    /\ writes = {}

(* buf, err := p.MarshalLayout() *)
MarshalLayout ==
    /\ pc = "marshal"
    /\ LET m == generateCopyMarshal(MarshalRes(zeroBuffer(layout.Anno.Size), {}, NoErr),
                                    Regions, 1, page)
       IN  /\ writes' = m.writes
           /\ err' = m.err
           /\ buf' = IF m.err = NoErr THEN m.buf ELSE <<>>
           /\ pc' = IF m.err = NoErr THEN "unmarshal"
                    ELSE IF m.err = "panic" THEN "panic" ELSE "failed"
    /\ UNCHANGED <<layout, registry, Regions, Errors, call, parserVars, page, decoded>>

(* p2 := &Page{}; err := p2.UnmarshalLayout(buf) *)
UnmarshalLayout ==
    /\ pc = "unmarshal"
    /\ LET d == IF bufLen(buf) # layout.Anno.Size
                THEN UnmarshalRes(zeroValue(layout), "expected bytes")
                ELSE generateCopyUnmarshal(UnmarshalRes(zeroValue(layout), NoErr),
                                           buf, Regions, 1)
       IN  /\ decoded' = d.v
           /\ err' = d.err
           /\ pc' = IF d.err = "panic" THEN "panic" ELSE "done"
    /\ UNCHANGED <<layout, registry, Regions, Errors, call, parserVars, page, buf, writes>>

CopyNext == MarshalLayout \/ UnmarshalLayout

CopySpec == CopyInit /\ [][CopyNext]_vars

----------------------------------------------------------------------------
(* Round trips and written bytes of the generated copy-mode code *)

Marshalled == pc \in {"unmarshal", "done"} /\ buf # <<>>

Unmarshalled == pc \in {"done", "panic"} /\ buf # <<>>

(* every dynamic field of the layout has a count field *)
AllCounted ==
    \A i \in 1..Len(layout.Fields) :
        layout.Fields[i].Layout.Direction # Fixed =>
            layout.Fields[i].Layout.CountField # EmptyString

(* C22: for an accepted layout whose dynamic fields all have count        *)
(* fields, UnmarshalLayout of the buffer a successful MarshalLayout       *)
(* returned gives back every fixed field and every slice, wherever the    *)
(* count field lies                                                       *)
C22_RoundTrip ==
    (Unmarshalled /\ AllCounted) =>
        /\ pc = "done"
        /\ err = NoErr
        /\ \A name \in DOMAIN page : decoded[name] = page[name]

(* the offsets MarshalLayout wrote for the field name *)
WrittenFor(name) == { w.off : w \in { x \in writes : x.f = name } }

(* the interval a region may write *)
Allowed(r) ==
    IF r.Direction = EndStart THEN r.Boundary..(r.Start - 1) ELSE r.Start..(r.Boundary - 1)

(* C29: when MarshalLayout returns success, no byte was written for two   *)
(* fields, and no dynamic field wrote outside of its start and boundary   *)
C29_DisjointWrites ==
    Marshalled =>
        /\ \A w1, w2 \in writes : w1.off = w2.off => w1.f = w2.f
        /\ \A i \in 1..Len(Regions) :
              Regions[i].Kind = DynamicRegion =>
                 WrittenFor(Regions[i].Field.Name) \subseteq Allowed(Regions[i])

====
